---- MODULE Spec2Model ----
(***************************************************************************)
(* DriveBuddy search: the index store (searchDrivesAsync / searchDrives),  *)
(* the streaming scanner of one index document (streamSearchIndexFile),    *)
(* the final sort and truncation, and the documented match score.          *)
(*                                                                         *)
(* Eight specifications share the module:                                  *)
(*   Spec       a search over the index directory, document by document,   *)
(*              each document a sequence of lines of balanced units;       *)
(*   SpecSync   the synchronous searchDrives over whole documents;         *)
(*   SpecScan   streamSearchIndexFile on the text of one document,         *)
(*              character by character;                                    *)
(*   SpecUi     the search command: the debounced effect on searchText;    *)
(*   SpecStore  the recency store;                                         *)
(*   SpecLock   concurrent callers of recordAccess under the store's lock; *)
(*   SpecCodec  encodeVolumeUUID / decodeVolumeUUID on index file names;   *)
(*   SpecScore  the documented match score.                                *)
(*                                                                         *)
(* Strings are sequences of one-character strings, so that includes(),     *)
(* trim(), toLowerCase(), endsWith(), localeCompare() and the edit         *)
(* distance are computed character by character.                           *)
(***************************************************************************)
EXTENDS Integers, Sequences, FiniteSets, TLC

(***************************************************************************)
(* Bounds of the model.                                                    *)
(***************************************************************************)
\* largest explicit maxResults argument a search is started with
MaxK == 3
\* largest number of files in the index directory
MaxFiles == 2
\* largest number of queries typed into the search bar
MaxQueries == 3
\* the callers that may be inside recordAccess at the same time
MaxCallers == 2
\* longest volume identifier over the sample alphabet
MaxIdLen == 4
\* largest number of recordAccess calls
MaxAccesses == 3
\* the capacity of the recency store: 100 records in section 4.5 of the
\* specification, scaled down
Capacity == 3
\* the time in ms up to which the clock of the search command is advanced
MaxTime == 400

\* setTimeout(..., 200): the debounce delay in ms
DebounceMs == 200

(***************************************************************************)
(* Program constants.                                                      *)
(***************************************************************************)
\* maxResults: number = 100
DefaultMaxResults == 100
\* "Filters out weak matches (score threshold: 60/100)"
ScoreThreshold == 60

(***************************************************************************)
(* String primitives of the JavaScript runtime.                            *)
(***************************************************************************)
Min2(a, b) == IF a <= b THEN a ELSE b

Max2(a, b) == IF a >= b THEN a ELSE b

\* String.prototype.toLowerCase on one character
LowerChar(c) ==
  CASE c = "A" -> "a"
    [] c = "B" -> "b"
    [] c = "D" -> "d"
    [] c = "E" -> "e"
    [] c = "Q" -> "q"
    [] c = "S" -> "s"
    [] c = "T" -> "t"
    [] c = "U" -> "u"
    [] OTHER -> c

\* String.prototype.toLowerCase
toLowerCase(s) == [i \in 1..Len(s) |-> LowerChar(s[i])]

IsSpace(c) == c = " "

RECURSIVE TrimStart(_)
TrimStart(s) ==
  IF s # <<>> /\ IsSpace(Head(s)) THEN TrimStart(Tail(s)) ELSE s

RECURSIVE TrimEnd(_)
TrimEnd(s) ==
  IF s # <<>> /\ IsSpace(s[Len(s)]) THEN TrimEnd(SubSeq(s, 1, Len(s) - 1)) ELSE s

\* trim that removes nothing
trimNothing(s) == s

\* String.prototype.trim
trim(s) == TrimEnd(TrimStart(s))

\* s.startsWith(p, position i - 1)
MatchAt(s, p, i) ==
  /\ i + Len(p) - 1 <= Len(s)
  /\ \A j \in 1..Len(p) : s[i + j - 1] = p[j]

\* String.prototype.includes: p occurs in s as a contiguous substring
includes(s, p) == \E i \in 1..(Len(s) + 1) : MatchAt(s, p, i)

\* String.prototype.endsWith
endsWith(s, p) == Len(p) <= Len(s) /\ MatchAt(s, p, Len(s) - Len(p) + 1)

\* Collation order of the characters the model uses (punctuation, then
\* digits, then letters); letters differing only in case share a rank.
Collation ==
  << " ", "-", ".", "/", "=", "1", "2", "5", "a", "b", "d", "e", "g", "h",
     "i", "j", "k", "l", "n", "o", "p", "q", "r", "s", "t", "u", "v", "w",
     "x", "y", "z" >>

\* the rank of every character the model uses, 0 for one not listed
CollationRanks ==
  [c \in {Collation[i] : i \in 1..Len(Collation)} \cup {"A", "B", "D", "E", "Q", "S", "T", "U"} |->
     LET hits == {i \in 1..Len(Collation) : Collation[i] = LowerChar(c)}
     IN  IF hits = {} THEN 0 ELSE CHOOSE i \in hits : TRUE]

CollationRank(c) == CollationRanks[c]

\* String.prototype.localeCompare: negative, zero or positive
RECURSIVE localeComparePrimary(_, _)
localeComparePrimary(a, b) ==
  IF a = <<>> /\ b = <<>> THEN 0
  ELSE IF a = <<>> THEN -1
  ELSE IF b = <<>> THEN 1
  ELSE IF CollationRank(Head(a)) < CollationRank(Head(b)) THEN -1
  ELSE IF CollationRank(Head(a)) > CollationRank(Head(b)) THEN 1
  ELSE localeComparePrimary(Tail(a), Tail(b))

\* among strings equal up to case, lower case sorts first
RECURSIVE localeCompareCase(_, _)
localeCompareCase(a, b) ==
  IF a = <<>> \/ b = <<>> THEN 0
  ELSE IF Head(a) = Head(b) THEN localeCompareCase(Tail(a), Tail(b))
  ELSE IF LowerChar(Head(a)) = Head(a) THEN -1 ELSE 1

localeCompare(a, b) ==
  LET p == localeComparePrimary(a, b)
  IN  IF p # 0 THEN p ELSE localeCompareCase(a, b)

(***************************************************************************)
(* The documented match score (README "Fuzzy Matching Algorithm").  A      *)
(* score is the exact fraction num / den, so that 95.7 and 96.7 are        *)
(* compared without rounding.                                              *)
(***************************************************************************)
\* one row of the edit-distance table: prev is the row of the prefix before
\* character ca, the result the row after it
RECURSIVE LevRow(_, _, _, _)
LevRow(prev, ca, b, acc) ==
  LET j == Len(acc)
  IN  IF j > Len(b) THEN acc
      ELSE LevRow(prev, ca, b,
             Append(acc,
               Min2(Min2(prev[j + 1] + 1, acc[j] + 1),
                    prev[j] + (IF ca = b[j] THEN 0 ELSE 1))))

RECURSIVE LevRows(_, _, _)
LevRows(a, b, row) ==
  IF a = <<>> THEN row
  ELSE LevRows(Tail(a), b, LevRow(row, Head(a), b, <<row[1] + 1>>))

\* minimum number of single-character inserts, deletes and substitutions
distance(a, b) == LevRows(a, b, [j \in 1..(Len(b) + 1) |-> j - 1])[Len(b) + 1]

\* the score without the normalisation of case
scoreCaseSensitive(query, name) ==
  LET maxLen == Max2(Len(query), Len(name))
      d == distance(query, name)
  IN  IF query = name THEN [num |-> 100, den |-> 1]
      ELSE IF includes(name, query)
        THEN [num |-> 90 * Len(name) + 10 * Len(query), den |-> Len(name)]
      ELSE IF maxLen = 0 THEN [num |-> 0, den |-> 1]
      ELSE [num |-> Max2(0, Min2(100 * maxLen, 100 * (maxLen - d))), den |-> maxLen]

\* score(query, candidateName) as the fraction [num, den]
Score(query, name) ==
  LET q == toLowerCase(query)
      n == toLowerCase(name)
      maxLen == Max2(Len(q), Len(n))
      d == distance(q, n)
  IN  IF q = n THEN [num |-> 100, den |-> 1]
      ELSE IF includes(n, q)
        THEN [num |-> 90 * Len(n) + 10 * Len(q), den |-> Len(n)]
      ELSE IF maxLen = 0 THEN [num |-> 0, den |-> 1]
      ELSE [num |-> Max2(0, Min2(100 * maxLen, 100 * (maxLen - d))), den |-> maxLen]

\* a > b for two scores
ScoreGreater(a, b) == a.num * b.den > b.num * a.den

\* the score is strictly above the threshold
AboveThreshold(sc) == sc.num > ScoreThreshold * sc.den

(***************************************************************************)
(* Volume identifiers: the file name of an index document is the Base64    *)
(* encoding of the volume UUID followed by ".json".                        *)
(***************************************************************************)
\* the 128 ASCII characters, AsciiTable[c + 1] being the character of code c
AsciiTable ==
  <<
     "x00", "x01", "x02", "x03", "x04", "x05", "x06", "x07", "x08", "x09",
     "x0A", "x0B", "x0C", "x0D", "x0E", "x0F", "x10", "x11", "x12", "x13",
     "x14", "x15", "x16", "x17", "x18", "x19", "x1A", "x1B", "x1C", "x1D",
     "x1E", "x1F", " ", "!", "x22", "#", "$", "%", "&", "'", "(", ")", "*",
     "+", ",", "-", ".", "/", "0", "1", "2", "3", "4", "5", "6", "7", "8",
     "9", ":", ";", "<", "=", ">", "?", "@", "A", "B", "C", "D", "E", "F",
     "G", "H", "I", "J", "K", "L", "M", "N", "O", "P", "Q", "R", "S", "T",
     "U", "V", "W", "X", "Y", "Z", "[", "x5C", "]", "^", "_", "x60", "a", "b",
     "c", "d", "e", "f", "g", "h", "i", "j", "k", "l", "m", "n", "o", "p",
     "q", "r", "s", "t", "u", "v", "w", "x", "y", "z", "{", "|", "}", "~",
     "x7F"
  >>

\* the Base64 alphabet, Base64Alphabet[v + 1] being the digit of value v
Base64Alphabet ==
  <<
     "A", "B", "C", "D", "E", "F", "G", "H", "I", "J", "K", "L", "M", "N",
     "O", "P", "Q", "R", "S", "T", "U", "V", "W", "X", "Y", "Z", "a", "b",
     "c", "d", "e", "f", "g", "h", "i", "j", "k", "l", "m", "n", "o", "p",
     "q", "r", "s", "t", "u", "v", "w", "x", "y", "z", "0", "1", "2", "3",
     "4", "5", "6", "7", "8", "9", "+", "/"
  >>

\* the value of a Base64 digit, -1 for any other character; the digits "-"
\* and "_" of the URL and filename safe alphabet are accepted as 62 and 63
unbase64(c) ==
  LET hits == {i \in 1..Len(Base64Alphabet) : Base64Alphabet[i] = c}
  IN  IF c = "-" THEN 62
      ELSE IF c = "_" THEN 63
      ELSE IF hits = {} THEN -1 ELSE (CHOOSE i \in hits : TRUE) - 1

\* the code of an ASCII character
charCode(c) ==
  LET hits == {i \in 1..Len(AsciiTable) : AsciiTable[i] = c}
  IN  IF hits = {} THEN 63 ELSE (CHOOSE i \in hits : TRUE) - 1

\* replace that removes nothing
replaceNothing(s, p) == s

\* String.prototype.replace(p, ""): the first occurrence of p removed
replaceFirst(s, p) ==
  LET at == {i \in 1..(Len(s) + 1) : MatchAt(s, p, i)}
  IN  IF at = {} THEN s
      ELSE LET i == CHOOSE x \in at : \A y \in at : x <= y
           IN  SubSeq(s, 1, i - 1) \o SubSeq(s, i + Len(p), Len(s))

DotJson == <<".", "j", "s", "o", "n">>

\* the part of a string the decoder reads: it stops at the first "="
beforePadding(s) ==
  LET pads == {i \in 1..Len(s) : s[i] = "="}
  IN  IF pads = {} THEN s
      ELSE SubSeq(s, 1, (CHOOSE i \in pads : \A j \in pads : i <= j) - 1)

\* the Base64 digits of a string, every other character skipped
base64Digits(s) ==
  SelectSeq([i \in 1..Len(beforePadding(s)) |-> unbase64(beforePadding(s)[i])],
            LAMBDA v : v >= 0)

\* the number held by the digits d[1..n], six bits each
RECURSIVE bitsValue(_, _)
bitsValue(d, n) == IF n = 0 THEN 0 ELSE bitsValue(d, n - 1) * 64 + d[n]

\* the bytes of one group of 2, 3 or 4 digits (1, 2 or 3 bytes)
groupBytes(g) ==
  LET v == bitsValue(g, Len(g))
  IN  CASE Len(g) = 4 -> <<v \div 65536, (v \div 256) % 256, v % 256>>
        [] Len(g) = 3 -> <<v \div 1024, (v \div 4) % 256>>
        [] Len(g) = 2 -> <<v \div 16>>
        [] OTHER -> <<>>

\* Buffer.from(s, "base64"): the decoded bytes
RECURSIVE base64Bytes(_)
base64Bytes(d) ==
  IF Len(d) <= 4 THEN groupBytes(d)
  ELSE groupBytes(SubSeq(d, 1, 4)) \o base64Bytes(SubSeq(d, 5, Len(d)))

\* buffer.toString("ascii"): the high bit of every byte is dropped
toAscii(bytes) == [i \in 1..Len(bytes) |-> AsciiTable[(bytes[i] % 128) + 1]]

decodeVolumeUUID(filename) == toAscii(base64Bytes(base64Digits(replaceFirst(filename, DotJson))))

\* the Base64 digits of one group of 1, 2 or 3 bytes, padded with "="
groupDigits(b) ==
  LET d(v) == Base64Alphabet[v + 1]
  IN  CASE Len(b) = 3 ->
             LET v == b[1] * 65536 + b[2] * 256 + b[3]
             IN  <<d(v \div 262144), d((v \div 4096) % 64), d((v \div 64) % 64), d(v % 64)>>
        [] Len(b) = 2 ->
             LET v == (b[1] * 256 + b[2]) * 4
             IN  <<d(v \div 4096), d((v \div 64) % 64), d(v % 64), "=">>
        [] Len(b) = 1 ->
             LET v == b[1] * 16
             IN  <<d(v \div 64), d(v % 64), "=", "=">>
        [] OTHER -> <<>>

RECURSIVE bytesBase64(_)
bytesBase64(b) ==
  IF Len(b) <= 3 THEN groupDigits(b)
  ELSE groupDigits(SubSeq(b, 1, 3)) \o bytesBase64(SubSeq(b, 4, Len(b)))

\* Buffer.from(uuid, "ascii").toString("base64")
encodeVolumeUUID(uuid) == bytesBase64([i \in 1..Len(uuid) |-> charCode(uuid[i])])

(***************************************************************************)
(* JavaScript values held by a decoded entry: a string, a number, or a     *)
(* missing property.                                                       *)
(***************************************************************************)
Str(s) == [t |-> "string", v |-> s]

Num(digits) == [t |-> "number", v |-> digits]

Missing == [t |-> "undefined", v |-> <<>>]

\* the value counts as true in a condition
truthy(x) ==
  \/ x.t = "string" /\ x.v # <<>>
  \/ x.t = "number" /\ x.v # <<"0">>
  \/ x.t \in {"object", "array"}

\* String(x): the text a value is coerced to
toStringValue(x) == IF x.t = "undefined" THEN <<"u", "n", "d", "e", "f", "i", "n", "e", "d">> ELSE x.v

(***************************************************************************)
(* The disk: the index documents the model draws the directory from.  A    *)
(* document is a sequence of lines; a line holds the balanced {...} units  *)
(* that close on it, and label says whether it carries "entries": [ .      *)
(***************************************************************************)
Entry(n, p) == [parses |-> TRUE, name |-> n, relativePath |-> p]

\* a balanced unit JSON.parse rejects
BadUnit == [parses |-> FALSE, name |-> Missing, relativePath |-> Missing]

Line(l, u) == [label |-> l, units |-> u]

S_test == <<"t", "e", "s", "t">>

S_test_txt == <<"t", "e", "s", "t", ".", "t", "x", "t">>

S_testing == <<"t", "e", "s", "t", "i", "n", "g">>

S_latest == <<"l", "a", "t", "e", "s", "t">>

S_trash == <<"t", "r", "a", "s", "h">>

S_tesst == <<"t", "e", "s", "s", "t">>

FileA == <<"Q", "Q", "=", "=">> \o DotJson

FileB == <<"Q", "g", "=", "=">> \o DotJson

FileC == <<"Q", "w", "=", "=">> \o DotJson

FileD == <<"R", "A", "=", "=">> \o DotJson

FileE == <<"R", "Q", "=", "=">> \o DotJson

FileN == <<"n", "o", "t", "e", "s", ".", "t", "x", "t">>

S_notes == <<"n", "o", "t", "e", "s">>

\* test/notes
S_test_notes == S_test \o <<"/">> \o S_notes

\* TEST/trash
S_TEST_trash == <<"T", "E", "S", "T", "/">> \o S_trash

\* the files the index directory may hold
Files == {FileA, FileB, FileC, FileD, FileN}

\* the lines createReadStream + readline deliver for a file
FileLines(f) ==
  CASE f = FileA ->
         << Line(FALSE, <<>>),
            Line(TRUE, <<Entry(Str(S_test_txt), Str(S_test_txt)),
                         Entry(Str(S_testing), Str(S_testing))>>),
            Line(FALSE, <<Entry(Str(S_latest), Str(S_latest)),
                          Entry(Str(S_trash), Str(S_trash))>>) >>
    [] f = FileB ->
         << Line(TRUE, <<BadUnit, Entry(Str(S_tesst), Str(S_tesst))>>),
            Line(FALSE, <<Entry(Str(S_test_txt), Str(S_test_txt))>>) >>
    [] f = FileC ->
         << Line(TRUE, <<Entry(Num(<<"5">>), Str(S_trash)),
                         Entry(Str(S_test), Num(<<"1">>))>>),
            Line(FALSE, <<Entry(Str(<<>>), Str(S_test)),
                          Entry(Str(S_testing), Num(<<"2">>))>>) >>
    [] f = FileE ->
         << Line(TRUE, <<Entry(Str(S_notes), Str(S_test_notes)),
                         Entry(Str(S_test), Str(S_test)),
                         Entry(Str(S_trash), Str(S_TEST_trash)),
                         Entry(Str(S_notes), Str(S_notes))>>) >>
    [] f = FileN ->
         << Line(TRUE, <<Entry(Str(S_test), Str(S_test))>>) >>
    [] OTHER -> <<>>

\* statSync(f).size; StatThrows(f) when statSync throws
FileSize(f) ==
  CASE f = FileA -> 40
    [] f = FileB -> 40
    [] f = FileC -> 30
    [] f = FileE -> 20
    [] f = FileN -> 10
    [] OTHER -> 0

StatThrows(f) == f = FileD

\* createReadStream fails when the file is opened (a dangling link)
OpenFails(f) == f = FileD

\* the queries a search is started with: "test" typed with capitals and
\* spaces around it, a space alone, and the empty query
Queries == {<<" ", "T", "e", "S", "t", " ">>, <<" ">>, <<>>}

\* every sequence without repetition of at most n of the files
RECURSIVE Listings(_)
Listings(n) ==
  IF n = 0 THEN {<<>>}
  ELSE LET shorter == Listings(n - 1)
       IN  shorter \cup {Append(l, f) : l \in shorter, f \in Files}

NoRepeat(l) == \A i, j \in 1..Len(l) : i # j => l[i] # l[j]

UnknownDrive == <<"U", "n", "k", "n", "o", "w", "n", " ", "D", "r", "i", "v", "e">>

\* DriveLogByKey of the preferences: volume UUID -> lastKnown.name
DriveLog == (<<"A">> :> <<"u", "s", "b">>) @@ (<<"B">> :> <<"n", "a", "s">>) @@ (<<"C">> :> <<>>)

NoDrives == [u \in {} |-> <<>>]

(***************************************************************************)
(* State.                                                                  *)
(***************************************************************************)
VARIABLES
  indexDir,    \* the index directory: [exists, readdirThrows, files]
  prefs,       \* the drive metadata of the preferences, UUID -> name
  call,        \* the function called: "none", "async" (searchDrivesAsync), "sync"
  maxArg,      \* the maxResults argument of the call, {} when left out
  pc,          \* "idle" (no call yet), "scan" (awaiting a document), "done", "rejected"
  lowerQuery,  \* query.toLowerCase().trim()
  maxResults,  \* the budget of the running search
  fileStats,   \* the index files in scan order, [file, size]
  idx,         \* position in fileStats of the document being scanned
  results,     \* the pooled results (currentResults of the scanner)
  stream,      \* the open document stream and the scanner's locals
  output,      \* the list the search returned
  opened,      \* the files a stream was created for, in order
  failed,      \* the files whose stream reported an error
  queryArg,    \* the query argument of the call
  enumerated,  \* readdirSync was called on the index directory
  openStreams  \* the files whose stream was created and has not ended or been destroyed

searchVars ==
  << indexDir, prefs, call, maxArg, pc, lowerQuery, maxResults, fileStats, idx, results,
     stream, output, opened, failed, queryArg, enumerated, openStreams >>

\* streamSearchIndexFile character by character, on one document
VARIABLES
  document,        \* the lines of the file, as readline delivers them
  scanQuery,       \* the parameter query
  scanBudget,      \* the parameter maxResults
  scanPc,          \* "off", "lines" (between line events), "chars" (in the loop), "resolved"
  linesRead,       \* the number of line events delivered
  lineText,        \* the text the loop of the handler runs over
  charPos,         \* the loop index i, counted from 1
  currentEntry,    \* the accumulated text of the entry
  braceCount,      \* the depth counter
  inEntries,       \* the entries label was seen
  currentResults,  \* the results pushed
  closed           \* the handler called rl.close() and stream.destroy()

scanVars ==
  << document, scanQuery, scanBudget, scanPc, linesRead, lineText, charPos, currentEntry,
     braceCount, inEntries, currentResults, closed >>

\* the search command: the state of Command and of its timers and searches
VARIABLES
  component,   \* the version of Command: "search.tsx" or "drivebuddy.ts"
  searchText,  \* the state searchText
  uiResults,   \* the state results: [kind, id], id the query the list belongs to
  isLoading,   \* the state isLoading
  now,         \* the time in ms
  issued,      \* the number of queries typed so far; a query is known by its number
  timeoutId,   \* the timer of the effect in force, 0 without
  timers,      \* the pending timers: [id, text, due]
  inflight,    \* the searches started and not settled: [id, text, linesLeft, staleLines]
  started,     \* every search ever started: [id, issuedAt, at, others]
  cancelled    \* the queries whose timer was pending when the next query was typed

uiVars ==
  << component, searchText, uiResults, isLoading, now, issued, timeoutId, timers,
     inflight, started, cancelled >>

\* the recency store
VARIABLES
  store,       \* the records of the recency document, in order
  storeNow,    \* the time of the store's clock
  accesses,    \* the number of recordAccess calls made
  lastSeen,    \* every pair ever accessed, with the time of its last access
  lastCall     \* the last call: [pair, at, fresh, streak] -- streak counts the calls in
               \* a row for the pair, fresh says the first of them found no record

storeVars == << store, storeNow, accesses, lastSeen, lastCall >>

\* the calls of recordAccess in progress
VARIABLES
  lock,        \* the caller that holds the lock of the recency document, 0 if free
  callers,     \* per caller: [pc, pair, at, snapshot, contended], the position in
               \* recordAccess, the pair recorded, the time taken, the records read
               \* and whether another call was in progress when it was called
  serial,      \* the records that the calls, made one after the other in the order
               \* of their writes, leave
  served       \* the calls that returned, oldest first: [pair, contended]

lockVars == << lock, callers, serial, served >>

\* the naming of the index documents
VARIABLES
  codecPc,         \* "off", "id" (an identifier to encode), "encoded", "listed" (a
                   \* file name of the index directory), "returned", "decoded"
  volumeUUID,      \* the identifier encodeVolumeUUID is called with
  indexFileName,   \* the file name decodeVolumeUUID is called with
  decodedUUID      \* the string decodeVolumeUUID returns

codecVars == << codecPc, volumeUUID, indexFileName, decodedUUID >>

\* the score function
VARIABLES
  scored       \* the last two calls of score: [query, name, matchScore], oldest first

scoreVars == << scored >>

vars == << searchVars, scanVars, uiVars, storeVars, lockVars, codecVars, scoreVars >>

\* what the actions of the search leave alone
notSearchVars == << scanVars, uiVars, storeVars, lockVars, codecVars, scoreVars >>

\* what the actions of the scanner leave alone
notScanVars == << searchVars, uiVars, storeVars, lockVars, codecVars, scoreVars >>

\* what the actions of the search command leave alone
notUiVars == << searchVars, scanVars, storeVars, lockVars, codecVars, scoreVars >>

\* what the actions of the recency store leave alone
notStoreVars == << searchVars, scanVars, uiVars, lockVars, codecVars, scoreVars >>

\* what the naming of the index documents leaves alone
notCodecVars == << searchVars, scanVars, uiVars, storeVars, lockVars, scoreVars >>

\* what the score function leaves alone
notScoreVars == << searchVars, scanVars, uiVars, storeVars, lockVars, codecVars >>

\* what the steps of a call of recordAccess leave alone
notLockVars ==
  << searchVars, scanVars, uiVars, lastSeen, lastCall, codecVars, scoreVars >>

NoStream ==
  [file |-> <<>>, driveUUID |-> <<>>, driveName |-> <<>>, lineNo |-> 0,
   inEntries |-> FALSE, rlClosed |-> FALSE]

(***************************************************************************)
(* searchDrivesAsync: parameters, enumeration, ordering.                   *)
(***************************************************************************)
\* maxResultsParam with the argument ignored: the default is always used
maxResultsIgnored(arg) == DefaultMaxResults

\* maxResults: number = 100 -- arg is {} when the argument is left out
maxResultsParam(arg) == IF arg = {} THEN DefaultMaxResults ELSE CHOOSE k \in arg : TRUE

\* loadDriveInfo(): the map is empty when the preferences are missing or
\* cannot be read, and holds no drive without a lastKnown record
loadDriveInfo == prefs

\* IsIndexFile without the ".json" filter
IsIndexFileUnfiltered(f) == TRUE

\* files.filter((f) => f.endsWith(".json"))
IsIndexFile(f) == endsWith(f, DotJson)

\* fileStats.map: the size, 0 when statSync throws
statOf(f) == [file |-> f, size |-> IF StatThrows(f) THEN 0 ELSE FileSize(f)]

\* compareSize with the operands exchanged: largest first
compareSizeDescending(a, b) == b.size - a.size

\* the comparator a.size - b.size
compareSize(a, b) == a.size - b.size

\* x put behind every element that does not sort after it
RECURSIVE insertBySize(_, _)
insertBySize(sorted, x) ==
  IF sorted = <<>> THEN <<x>>
  ELSE IF compareSize(Head(sorted), x) > 0 THEN <<x>> \o sorted
  ELSE <<Head(sorted)>> \o insertBySize(Tail(sorted), x)

\* fileStats.sort((a, b) => a.size - b.size), a stable sort
RECURSIVE sortBySize(_)
sortBySize(fs) ==
  IF fs = <<>> THEN <<>>
  ELSE insertBySize(sortBySize(SubSeq(fs, 1, Len(fs) - 1)), fs[Len(fs)])

\* drive?.name || "Unknown Drive"
driveNameOf(driveInfo, uuid) ==
  IF uuid \in DOMAIN driveInfo /\ driveInfo[uuid] # <<>> THEN driveInfo[uuid] ELSE UnknownDrive

(***************************************************************************)
(* streamSearchIndexFile: the line handler.                                *)
(***************************************************************************)
\* budgetReached one result late
budgetReachedLate(n, k) == n > k

\* currentResults.length >= maxResults
budgetReached(n, k) == n >= k

\* matchesQuery without the test on the query: every named entry matches
matchesQueryAlways(name, query) == name.t = "string"

\* entry.name.includes(query); on a name that is no string the call throws
\* a TypeError, which the handler's catch turns into a skipped entry
matchesQuery(name, query) == name.t = "string" /\ includes(name.v, query)

\* the entry is pushed: it decoded, has a name and a relativePath, and matches
isCandidate(u, query) ==
  /\ u.parses
  /\ truthy(u.name)
  /\ truthy(u.relativePath)
  /\ matchesQuery(u.name, query)

makeResult(u, st) ==
  [entry |-> [name |-> u.name, relativePath |-> u.relativePath],
   driveUUID |-> st.driveUUID, driveName |-> st.driveName, indexFile |-> st.file]

\* the loop over the characters of one line, unit by unit: the results after
\* the line, and whether the handler closed the stream on a full budget
RECURSIVE scanUnits(_, _, _, _, _)
scanUnits(units, res, k, query, st) ==
  IF units = <<>> THEN [results |-> res, closed |-> FALSE]
  ELSE LET u == Head(units)
           hit == isCandidate(u, query)
           res2 == IF hit THEN Append(res, makeResult(u, st)) ELSE res
       IN  IF hit /\ budgetReached(Len(res2), k)
             THEN [results |-> res2, closed |-> TRUE]
             ELSE scanUnits(Tail(units), res2, k, query, st)

\* the comparator without the priority of matches in the name
compareResultsNoNameMatch(a, b, query) ==
  IF a.driveName # b.driveName THEN localeCompare(a.driveName, b.driveName)
  ELSE localeCompare(toStringValue(a.entry.relativePath),
                     toStringValue(b.entry.relativePath))

(***************************************************************************)
(* The final sort and truncation.                                          *)
(***************************************************************************)
\* compareResults without the tie-break on relativePath
compareResultsNoPath(a, b, query) ==
  LET aNameMatch == includes(toStringValue(a.entry.name), query)
      bNameMatch == includes(toStringValue(b.entry.name), query)
  IN  IF aNameMatch /\ ~bNameMatch THEN -1
      ELSE IF ~aNameMatch /\ bNameMatch THEN 1
      ELSE IF a.driveName # b.driveName THEN localeCompare(a.driveName, b.driveName)
      ELSE 0

\* the comparator of results.sort
compareResults(a, b, query) ==
  LET aNameMatch == includes(toStringValue(a.entry.name), query)
      bNameMatch == includes(toStringValue(b.entry.name), query)
  IN  IF aNameMatch /\ ~bNameMatch THEN -1
      ELSE IF ~aNameMatch /\ bNameMatch THEN 1
      ELSE IF a.driveName # b.driveName THEN localeCompare(a.driveName, b.driveName)
      ELSE localeCompare(toStringValue(a.entry.relativePath),
                         toStringValue(b.entry.relativePath))

\* comparing a with b throws: a.entry.relativePath.localeCompare is reached
\* and a.entry.relativePath is no string
compareThrows(a, b, query) ==
  LET aNameMatch == includes(toStringValue(a.entry.name), query)
      bNameMatch == includes(toStringValue(b.entry.name), query)
  IN  /\ aNameMatch = bNameMatch
      /\ a.driveName = b.driveName
      /\ a.entry.relativePath.t # "string"

\* the order in which sort calls the comparator is the engine's choice: the
\* sort may throw when some pair throws and must when every pair does
sortMayThrow(res, query) ==
  \E i, j \in 1..Len(res) : i # j /\ compareThrows(res[i], res[j], query)

sortMustThrow(res, query) ==
  /\ Len(res) >= 2
  /\ \A i, j \in 1..Len(res) : i # j => compareThrows(res[i], res[j], query)

RECURSIVE insertResult(_, _, _)
insertResult(sorted, x, query) ==
  IF sorted = <<>> THEN <<x>>
  ELSE IF compareResults(Head(sorted), x, query) > 0 THEN <<x>> \o sorted
  ELSE <<Head(sorted)>> \o insertResult(Tail(sorted), x, query)

\* results.sort(comparator), a stable sort
RECURSIVE sortResults(_, _)
sortResults(res, query) ==
  IF res = <<>> THEN <<>>
  ELSE insertResult(sortResults(SubSeq(res, 1, Len(res) - 1), query), res[Len(res)], query)

\* results.slice(0, maxResults), maxResults >= 0
slice(res, k) == SubSeq(res, 1, Min2(k, Len(res)))

(***************************************************************************)
(* Actions.                                                                *)
(***************************************************************************)
\* return results.slice(0, maxResults) after the sort, or the sort throws
\* and the promise of searchDrivesAsync rejects
Return(res, k, query) ==
  \/ /\ ~sortMustThrow(res, query)
     /\ pc' = "done"
     /\ results' = sortResults(res, query)
     /\ output' = slice(sortResults(res, query), k)
  \/ /\ sortMayThrow(res, query)
     /\ pc' = "rejected"
     /\ results' = res
     /\ output' = <<>>

\* the for loop from position i on: the next document is opened, or the
\* loop ends (no document left, or the budget is reached) and the search
\* sorts and returns
Continue(fs, k, query, res, i, op, os) ==
  IF i <= Len(fs) /\ ~budgetReached(Len(res), k)
    THEN /\ pc' = "scan"
         /\ idx' = i
         /\ results' = res
         /\ output' = <<>>
         /\ opened' = Append(op, fs[i].file)
         /\ openStreams' = os \cup {fs[i].file}
         /\ stream' = [file |-> fs[i].file,
                       driveUUID |-> decodeVolumeUUID(fs[i].file),
                       driveName |-> driveNameOf(loadDriveInfo, decodeVolumeUUID(fs[i].file)),
                       lineNo |-> 0, inEntries |-> FALSE, rlClosed |-> FALSE]
    ELSE /\ idx' = i
         /\ opened' = op
         /\ openStreams' = os
         /\ stream' = NoStream
         /\ Return(res, k, query)

\* the input of the document has ended: every line was delivered
atEnd(st) == ~OpenFails(st.file) /\ st.lineNo = Len(FileLines(st.file))

\* resolved without the wait for the close event: the scan resolves as soon
\* as it was started
resolvedAtOnce(st) == TRUE

\* resolved only by rl.close(): the end of the input does not resolve the scan
resolvedByCloseOnly(st) == st.rlClosed

\* rl.on("close", resolve): the promise of the scan resolves when readline
\* closes, at the end of the input or after the handler called rl.close()
resolved(st) == st.rlClosed \/ atEnd(st)

\* afterFailure without the catch inside the loop: the error reaches the
\* outer catch and the loop is left
afterFailureLeavesLoop(i) == Len(fileStats) + 1

\* what the catch around one document's scan does with the loop position
afterFailure(i) == i + 1

\* searchDrivesAsync(query, maxResults) up to its first await
searchDrivesAsync(query, arg) ==
  /\ pc = "idle"
  /\ call' = "async"
  /\ queryArg' = query
  /\ maxArg' = arg
  /\ lowerQuery' = trim(toLowerCase(query))
  /\ maxResults' = maxResultsParam(arg)
  /\ failed' = {}
  /\ IF lowerQuery' = <<>> \/ ~indexDir.exists
       THEN /\ pc' = "done"
            /\ results' = <<>>
            /\ output' = <<>>
            /\ enumerated' = FALSE
            /\ fileStats' = <<>>
            /\ idx' = 0
            /\ opened' = <<>>
            /\ openStreams' = {}
            /\ stream' = NoStream
       ELSE IF indexDir.readdirThrows
         THEN /\ enumerated' = TRUE
              /\ fileStats' = <<>>
              /\ idx' = 0
              /\ opened' = <<>>
              /\ openStreams' = {}
              /\ stream' = NoStream
              /\ Return(<<>>, maxResults', lowerQuery')
         ELSE LET files == SelectSeq(indexDir.files, IsIndexFile)
              IN  /\ enumerated' = TRUE
                  /\ fileStats' = sortBySize([i \in 1..Len(files) |-> statOf(files[i])])
                  /\ Continue(fileStats', maxResults', lowerQuery', <<>>, 1, <<>>, {})
  /\ UNCHANGED <<indexDir, prefs>>
  /\ UNCHANGED notSearchVars

\* rl.on("line"): the handler for the next line of the open document
OnLine ==
  /\ pc = "scan"
  /\ ~OpenFails(stream.file)
  /\ stream.lineNo < Len(FileLines(stream.file))
  /\ LET line == FileLines(stream.file)[stream.lineNo + 1]
         inE == stream.inEntries \/ line.label
         r == scanUnits(line.units, results, maxResults, lowerQuery, stream)
     IN  IF budgetReached(Len(results), maxResults)
           THEN /\ stream' = [stream EXCEPT !.lineNo = @ + 1, !.rlClosed = TRUE]
                /\ openStreams' = openStreams \ {stream.file}
                /\ UNCHANGED results
           ELSE IF ~inE
             THEN /\ stream' = [stream EXCEPT !.lineNo = @ + 1]
                  /\ UNCHANGED <<results, openStreams>>
             ELSE /\ stream' = [stream EXCEPT !.lineNo = @ + 1, !.inEntries = TRUE,
                                              !.rlClosed = @ \/ r.closed]
                  /\ openStreams' = IF r.closed THEN openStreams \ {stream.file}
                                    ELSE openStreams
                  /\ results' = r.results
  /\ UNCHANGED <<indexDir, prefs, call, maxArg, pc, lowerQuery, maxResults,
                 fileStats, idx, output, opened, failed, queryArg, enumerated>>
  /\ UNCHANGED notSearchVars

\* rl.on("close", resolve): the scan resolves at the end of the input or
\* after the handler closed the stream, and the loop goes on
OnClose ==
  /\ pc = "scan"
  /\ resolved(stream)
  /\ Continue(fileStats, maxResults, lowerQuery, results, idx + 1, opened,
              IF atEnd(stream) THEN openStreams \ {stream.file} ELSE openStreams)
  /\ UNCHANGED <<indexDir, prefs, call, maxArg, lowerQuery, maxResults, fileStats,
                 failed, queryArg, enumerated>>
  /\ UNCHANGED notSearchVars

\* stream.on("error", reject): the scan rejects, the catch of the loop logs
\* the failure and the loop goes on
OnStreamError ==
  /\ pc = "scan"
  /\ ~stream.rlClosed
  /\ failed' = failed \cup {stream.file}
  /\ Continue(fileStats, maxResults, lowerQuery, results, afterFailure(idx), opened,
              openStreams \ {stream.file})
  /\ UNCHANGED <<indexDir, prefs, call, maxArg, lowerQuery, maxResults, fileStats,
                 queryArg, enumerated>>
  /\ UNCHANGED notSearchVars

(***************************************************************************)
(* searchDrives: the synchronous fallback, one call from start to return.  *)
(***************************************************************************)
RECURSIVE concatUnits(_)
concatUnits(lines) ==
  IF lines = <<>> THEN <<>> ELSE Head(lines).units \o concatUnits(Tail(lines))

\* JSON.parse(readFileSync(f)) throws: the file cannot be read, or some unit
\* of it is no JSON
parseThrows(f) ==
  \/ OpenFails(f)
  \/ \E i \in 1..Len(concatUnits(FileLines(f))) : ~concatUnits(FileLines(f))[i].parses

\* index.entries is an array: some line carries the entries label
hasEntries(f) == \E i \in 1..Len(FileLines(f)) : FileLines(f)[i].label

\* entry.name.includes(q) || entry.relativePath.toLowerCase().includes(q):
\* "hit", "miss", or "throw" when a method is called on what is no string
syncMatch(u, query) ==
  IF u.name.t # "string" THEN "throw"
  ELSE IF includes(u.name.v, query) THEN "hit"
  ELSE IF u.relativePath.t # "string" THEN "throw"
  ELSE IF includes(toLowerCase(u.relativePath.v), query) THEN "hit"
  ELSE "miss"

\* the loop over index.entries with its early exit; a throw ends the loop
\* and leaves what was pushed
RECURSIVE syncEntries(_, _, _, _, _)
syncEntries(units, res, k, query, st) ==
  IF units = <<>> THEN res
  ELSE LET m == syncMatch(Head(units), query)
           res2 == Append(res, makeResult(Head(units), st))
       IN  CASE m = "throw" -> res
             [] m = "miss" -> syncEntries(Tail(units), res, k, query, st)
             [] OTHER -> IF budgetReached(Len(res2), k) THEN res2
                         ELSE syncEntries(Tail(units), res2, k, query, st)

\* the body of the loop over fileStats for one file, inside its try
syncFile(f, res, k, query) ==
  IF parseThrows(f) \/ ~hasEntries(f) THEN res
  ELSE syncEntries(concatUnits(FileLines(f)), res, k, query,
                   [file |-> f, driveUUID |-> decodeVolumeUUID(f),
                    driveName |-> driveNameOf(loadDriveInfo, decodeVolumeUUID(f))])

\* the loop over fileStats from position i on
RECURSIVE syncFiles(_, _, _, _, _)
syncFiles(fs, i, res, k, query) ==
  IF i > Len(fs) \/ budgetReached(Len(res), k) THEN res
  ELSE syncFiles(fs, i + 1, syncFile(fs[i].file, res, k, query), k, query)

\* the number of files the loop reads
RECURSIVE syncReads(_, _, _, _, _)
syncReads(fs, i, res, k, query) ==
  IF i > Len(fs) \/ budgetReached(Len(res), k) THEN i - 1
  ELSE syncReads(fs, i + 1, syncFile(fs[i].file, res, k, query), k, query)

\* searchDrives(query, maxResults)
searchDrives(query, arg) ==
  /\ pc = "idle"
  /\ call' = "sync"
  /\ queryArg' = query
  /\ maxArg' = arg
  /\ lowerQuery' = trim(toLowerCase(query))
  /\ maxResults' = maxResultsParam(arg)
  /\ stream' = NoStream
  /\ openStreams' = {}
  /\ enumerated' = (lowerQuery' # <<>> /\ indexDir.exists)
  /\ IF lowerQuery' = <<>> \/ ~indexDir.exists
       THEN /\ pc' = "done"
            /\ results' = <<>>
            /\ output' = <<>>
            /\ fileStats' = <<>>
            /\ idx' = 0
            /\ opened' = <<>>
            /\ failed' = {}
       ELSE IF indexDir.readdirThrows
         THEN /\ fileStats' = <<>>
              /\ idx' = 0
              /\ opened' = <<>>
              /\ failed' = {}
              /\ Return(<<>>, maxResults', lowerQuery')
         ELSE LET files == SelectSeq(indexDir.files, IsIndexFile)
                  fs == sortBySize([i \in 1..Len(files) |-> statOf(files[i])])
                  n == syncReads(fs, 1, <<>>, maxResults', lowerQuery')
              IN  /\ fileStats' = fs
                  /\ idx' = n + 1
                  /\ opened' = [i \in 1..n |-> fs[i].file]
                  /\ failed' = {fs[i].file : i \in {j \in 1..n : parseThrows(fs[j].file)}}
                  /\ Return(syncFiles(fs, 1, <<>>, maxResults', lowerQuery'),
                            maxResults', lowerQuery')
  /\ UNCHANGED <<indexDir, prefs>>
  /\ UNCHANGED notSearchVars

\* no search was called
SearchIdle ==
  /\ call = "none"
  /\ maxArg = {}
  /\ pc = "idle"
  /\ lowerQuery = <<>>
  /\ maxResults = 0
  /\ fileStats = <<>>
  /\ idx = 0
  /\ results = <<>>
  /\ stream = NoStream
  /\ output = <<>>
  /\ opened = <<>>
  /\ failed = {}
  /\ queryArg = <<>>
  /\ enumerated = FALSE
  /\ openStreams = {}

\* no scan was started
ScanOff ==
  /\ document = <<>>
  /\ scanQuery = <<>>
  /\ scanBudget = 0
  /\ scanPc = "off"
  /\ linesRead = 0
  /\ lineText = <<>>
  /\ charPos = 0
  /\ currentEntry = <<>>
  /\ braceCount = 0
  /\ inEntries = FALSE
  /\ currentResults = <<>>
  /\ closed = FALSE

\* the search command is not mounted
UiOff ==
  /\ component = "none"
  /\ searchText = <<>>
  /\ uiResults = [kind |-> "none", id |-> 0]
  /\ isLoading = FALSE
  /\ now = 0
  /\ issued = 0
  /\ timeoutId = 0
  /\ timers = {}
  /\ inflight = {}
  /\ started = {}
  /\ cancelled = {}

\* the recency store is not in use
StoreOff ==
  /\ store = <<>>
  /\ storeNow = 0
  /\ accesses = 0
  /\ lastSeen = {}
  /\ lastCall = [pair |-> [volumeId |-> <<>>, relativePath |-> <<>>], at |-> 0,
                 fresh |-> FALSE, streak |-> 0]

\* no call of recordAccess is in progress
LockOff ==
  /\ lock = 0
  /\ callers = <<>>
  /\ serial = <<>>
  /\ served = <<>>

\* no file name is encoded or decoded
CodecOff ==
  /\ codecPc = "off"
  /\ volumeUUID = <<>>
  /\ indexFileName = <<>>
  /\ decodedUUID = <<>>

Init ==
  /\ indexDir \in
       {[exists |-> FALSE, readdirThrows |-> FALSE, files |-> <<>>],
        [exists |-> TRUE, readdirThrows |-> TRUE, files |-> <<>>]}
       \cup {[exists |-> TRUE, readdirThrows |-> FALSE, files |-> l] :
               l \in {x \in Listings(MaxFiles) : NoRepeat(x)}}
  /\ prefs \in {NoDrives, DriveLog}
  /\ SearchIdle
  /\ ScanOff
  /\ UiOff
  /\ StoreOff
  /\ LockOff
  /\ CodecOff
  /\ scored = <<>>

Next ==
  \/ \E query \in Queries, arg \in {{}} \cup {{k} : k \in 0..MaxK} :
       searchDrivesAsync(query, arg)
  \/ \E query \in Queries, arg \in {{}} \cup {{k} : k \in 0..MaxK} :
       searchDrives(query, arg)
  \/ OnLine
  \/ OnClose
  \/ OnStreamError

Spec == Init /\ [][Next]_vars

(***************************************************************************)
(* The synchronous fallback on its own, over documents with entries that   *)
(* match through their path only.                                          *)
(***************************************************************************)
SyncFiles == {FileA, FileB, FileE}

\* the listings of the index directory: the files in every order
SyncListings ==
  {<<>>}
    \cup {<<f>> : f \in SyncFiles}
    \cup {<<f, g>> : f \in SyncFiles, g \in SyncFiles}
    \cup {<<f, g, h>> : f \in SyncFiles, g \in SyncFiles, h \in SyncFiles}

InitSync ==
  /\ indexDir \in {[exists |-> TRUE, readdirThrows |-> FALSE, files |-> l] :
                     l \in {x \in SyncListings : NoRepeat(x)}}
  /\ prefs \in {NoDrives, DriveLog}
  /\ SearchIdle
  /\ ScanOff
  /\ UiOff
  /\ StoreOff
  /\ LockOff
  /\ CodecOff
  /\ scored = <<>>

NextSync ==
  \E query \in Queries, arg \in {{}} \cup {{k} : k \in 0..MaxK} : searchDrives(query, arg)

SpecSync == InitSync /\ [][NextSync]_vars

(***************************************************************************)
(* JSON.parse, on the texts the documents of the model are made of:        *)
(* objects, arrays, strings and unsigned integers.  A value is [t, v] as   *)
(* above; the v of an object is the sequence of its [key, val] members and *)
(* the v of an array the sequence of its items.  "x22" is the double quote,*)
(* "x5C" the backslash, "nl" the line feed.                                *)
(***************************************************************************)
Quote == "x22"

Backslash == "x5C"

Digits == {"0", "1", "2", "3", "4", "5", "6", "7", "8", "9"}

JsonSpace(ch) == ch \in {" ", "nl"}

Obj(members) == [t |-> "object", v |-> members]

Arr(items) == [t |-> "array", v |-> items]

ParseFail == [ok |-> FALSE, val |-> Missing, next |-> 0]

Parsed(x, i) == [ok |-> TRUE, val |-> x, next |-> i]

RECURSIVE skipSpace(_, _)
skipSpace(t, i) == IF i <= Len(t) /\ JsonSpace(t[i]) THEN skipSpace(t, i + 1) ELSE i

\* the characters of a string up to its closing quote, from position i on;
\* of the escapes, only those of the quote, the backslash and the slash
\* occur in the documents of the model
RECURSIVE parseChars(_, _, _)
parseChars(t, i, acc) ==
  IF i > Len(t) THEN ParseFail
  ELSE IF t[i] = Quote THEN Parsed(Str(acc), i + 1)
  ELSE IF t[i] = Backslash
    THEN IF i < Len(t) /\ t[i + 1] \in {Quote, Backslash, "/"}
           THEN parseChars(t, i + 2, Append(acc, t[i + 1]))
           ELSE ParseFail
  ELSE parseChars(t, i + 1, Append(acc, t[i]))

RECURSIVE parseDigits(_, _, _)
parseDigits(t, i, acc) ==
  IF i <= Len(t) /\ t[i] \in Digits THEN parseDigits(t, i + 1, Append(acc, t[i]))
  ELSE Parsed(Num(acc), i)

RECURSIVE parseValue(_, _)
RECURSIVE parseMembers(_, _, _, _)
RECURSIVE parseItems(_, _, _, _)

\* the value that starts at the first non-space position from i on
parseValue(t, i) ==
  LET j == skipSpace(t, i)
  IN  IF j > Len(t) THEN ParseFail
      ELSE IF t[j] = Quote THEN parseChars(t, j + 1, <<>>)
      ELSE IF t[j] = "{" THEN parseMembers(t, skipSpace(t, j + 1), <<>>, TRUE)
      ELSE IF t[j] = "[" THEN parseItems(t, skipSpace(t, j + 1), <<>>, TRUE)
      ELSE IF t[j] \in Digits THEN parseDigits(t, j, <<>>)
      ELSE ParseFail

\* the members of an object behind its "{" or behind a ","
parseMembers(t, i, acc, first) ==
  IF i > Len(t) THEN ParseFail
  ELSE IF first /\ t[i] = "}" THEN Parsed(Obj(acc), i + 1)
  ELSE IF t[i] # Quote THEN ParseFail
  ELSE LET k == parseChars(t, i + 1, <<>>)
           c == skipSpace(t, k.next)
           x == parseValue(t, c + 1)
           e == skipSpace(t, x.next)
           acc2 == Append(acc, [key |-> k.val.v, val |-> x.val])
       IN  IF ~k.ok THEN ParseFail
           ELSE IF c > Len(t) \/ t[c] # ":" THEN ParseFail
           ELSE IF ~x.ok THEN ParseFail
           ELSE IF e > Len(t) THEN ParseFail
           ELSE IF t[e] = "," THEN parseMembers(t, skipSpace(t, e + 1), acc2, FALSE)
           ELSE IF t[e] = "}" THEN Parsed(Obj(acc2), e + 1)
           ELSE ParseFail

\* the items of an array behind its "[" or behind a ","
parseItems(t, i, acc, first) ==
  IF i > Len(t) THEN ParseFail
  ELSE IF first /\ t[i] = "]" THEN Parsed(Arr(acc), i + 1)
  ELSE LET x == parseValue(t, i)
           e == skipSpace(t, x.next)
           acc2 == Append(acc, x.val)
       IN  IF ~x.ok THEN ParseFail
           ELSE IF e > Len(t) THEN ParseFail
           ELSE IF t[e] = "," THEN parseItems(t, skipSpace(t, e + 1), acc2, FALSE)
           ELSE IF t[e] = "]" THEN Parsed(Arr(acc2), e + 1)
           ELSE ParseFail

\* JSON.parse(text): one value and nothing but space behind it
JSONparse(t) ==
  LET r == parseValue(t, 1)
  IN  IF r.ok /\ skipSpace(t, r.next) = Len(t) + 1 THEN r ELSE ParseFail

\* x[key]: the last member of the object with that key, undefined without
RECURSIVE memberOf(_, _, _)
memberOf(members, key, found) ==
  IF members = <<>> THEN found
  ELSE memberOf(Tail(members), key,
                IF Head(members).key = key THEN Head(members).val ELSE found)

prop(x, key) == IF x.t = "object" THEN memberOf(x.v, key, Missing) ELSE Missing

K_name == <<"n", "a", "m", "e">>

K_relativePath == <<"r", "e", "l", "a", "t", "i", "v", "e", "P", "a", "t", "h">>

K_entries == <<"e", "n", "t", "r", "i", "e", "s">>

K_generatedAt == <<"g", "e", "n", "e", "r", "a", "t", "e", "d", "A", "t">>

\* what the handler sees of a text it took for a complete entry
unitOf(text) ==
  LET r == JSONparse(text)
  IN  IF r.ok THEN Entry(prop(r.val, K_name), prop(r.val, K_relativePath)) ELSE BadUnit

(***************************************************************************)
(* The index documents of the scanner: JSON.stringify of a SearchIndex,    *)
(* with line feeds between tokens.                                         *)
(***************************************************************************)
Quoted(s) == <<Quote>> \o s \o <<Quote>>

entryTokens(e) ==
  << <<"{">>, Quoted(K_name), <<":">>, Quoted(e.name), <<",">>,
     Quoted(K_relativePath), <<":">>, Quoted(e.relativePath), <<"}">> >>

RECURSIVE entriesTokens(_)
entriesTokens(es) ==
  IF es = <<>> THEN <<>>
  ELSE entryTokens(Head(es))
         \o (IF Len(es) > 1 THEN << <<",">> >> ELSE <<>>)
         \o entriesTokens(Tail(es))

\* {"generatedAt":1,"entries":[ ... ]}
documentTokens(es) ==
  << <<"{">>, Quoted(K_generatedAt), <<":">>, <<"1">>, <<",">>,
     Quoted(K_entries), <<":">>, <<"[">> >>
    \o entriesTokens(es)
    \o << <<"]">>, <<"}">> >>

\* the lines of the tokens from i on, with a line feed behind every token
\* whose position is in cuts; cur is the line under construction
RECURSIVE linesOf(_, _, _, _)
linesOf(tokens, i, cuts, cur) ==
  IF i > Len(tokens) THEN <<cur>>
  ELSE IF i \in cuts THEN <<cur \o tokens[i]>> \o linesOf(tokens, i + 1, cuts, <<>>)
  ELSE linesOf(tokens, i + 1, cuts, cur \o tokens[i])

\* the content of the file: the lines with their line feeds
RECURSIVE fileText(_)
fileText(lines) ==
  IF lines = <<>> THEN <<>>
  ELSE IF Len(lines) = 1 THEN Head(lines)
  ELSE Head(lines) \o <<"nl">> \o fileText(Tail(lines))

\* where the line feeds lie: nowhere, behind one token, or behind every token
Layouts(tokens) ==
  {{}} \cup {{i} : i \in 1..(Len(tokens) - 1)} \cup {1..(Len(tokens) - 1)}

\* the names of the files indexed: matching "a" or not, with and without
\* braces
EntryNames == {<<"a">>, <<"b">>, <<"a", "}">>, <<"{", "a">>, <<"{", "a", "}">>}

IndexEntry(x) == [name |-> x, relativePath |-> x]

\* the entries arrays of the documents: empty, one entry, two entries
EntryLists ==
  {<<>>}
    \cup {<<IndexEntry(x)>> : x \in EntryNames}
    \cup {<<IndexEntry(x), IndexEntry(y)>> : x, y \in EntryNames}

Documents ==
  UNION {{linesOf(documentTokens(es), 1, cuts, <<>>) : cuts \in Layouts(documentTokens(es))} :
           es \in EntryLists}

(***************************************************************************)
(* streamSearchIndexFile, character by character.                          *)
(***************************************************************************)
EntriesLabel == Quoted(K_entries)

\* \s of the regular expression, on the characters of a line
RECURSIVE skipRegexSpace(_, _)
skipRegexSpace(line, i) ==
  IF i <= Len(line) /\ line[i] = " " THEN skipRegexSpace(line, i + 1) ELSE i

\* the position of the "[" when "entries"\s*:\s*\[ matches at position p,
\* 0 when it does not
labelOpensAt(line, p) ==
  LET c == skipRegexSpace(line, p + Len(EntriesLabel))
      b == skipRegexSpace(line, c + 1)
  IN  IF /\ MatchAt(line, EntriesLabel, p)
         /\ c <= Len(line) /\ line[c] = ":"
         /\ b <= Len(line) /\ line[b] = "["
        THEN b ELSE 0

\* line.match(/"entries"\s*:\s*\[(.*)$/): the text behind the "[" of the
\* leftmost match, the whole line without a match
afterLabel(line) ==
  LET ps == {p \in 1..Len(line) : labelOpensAt(line, p) > 0}
  IN  IF ps = {} THEN line
      ELSE LET p == CHOOSE q \in ps : \A r \in ps : q <= r
           IN  SubSeq(line, labelOpensAt(line, p) + 1, Len(line))

\* the scan of one document is started
StartScan(doc, q, k) ==
  /\ scanPc = "off"
  /\ document' = doc
  /\ scanQuery' = q
  /\ scanBudget' = k
  /\ scanPc' = "lines"
  /\ UNCHANGED <<linesRead, lineText, charPos, currentEntry, braceCount, inEntries,
                 currentResults, closed>>
  /\ UNCHANGED notScanVars

\* rl.on("line"), up to the loop over the characters
ScanLine ==
  /\ scanPc = "lines"
  /\ linesRead < Len(document)
  /\ linesRead' = linesRead + 1
  /\ LET line == document[linesRead + 1]
         found == ~inEntries /\ includes(line, EntriesLabel)
         text == IF found THEN afterLabel(line) ELSE line
     IN  IF budgetReached(Len(currentResults), scanBudget)
           THEN /\ closed' = TRUE
                /\ UNCHANGED <<scanPc, lineText, charPos, inEntries>>
           ELSE /\ inEntries' = (inEntries \/ found)
                /\ UNCHANGED closed
                /\ IF inEntries' /\ text # <<>>
                     THEN /\ scanPc' = "chars"
                          /\ lineText' = text
                          /\ charPos' = 1
                     ELSE UNCHANGED <<scanPc, lineText, charPos>>
  /\ UNCHANGED <<document, scanQuery, scanBudget, currentEntry, braceCount, currentResults>>
  /\ UNCHANGED notScanVars

\* one pass of the loop over the characters of the line
ScanChar ==
  /\ scanPc = "chars"
  /\ LET char == lineText[charPos]
         entry1 == IF char = "{" /\ braceCount = 0 THEN <<>> ELSE currentEntry
         count1 == IF char = "{" THEN braceCount + 1 ELSE braceCount
         entry2 == IF count1 > 0 THEN Append(entry1, char) ELSE entry1
         count2 == IF char = "}" THEN count1 - 1 ELSE count1
         complete == char = "}" /\ count2 = 0 /\ Len(entry2) > 2
         u == unitOf(entry2)
         hit == complete /\ isCandidate(u, scanQuery)
         res2 == IF hit
                   THEN Append(currentResults, [name |-> u.name, relativePath |-> u.relativePath])
                   ELSE currentResults
         full == hit /\ budgetReached(Len(res2), scanBudget)
     IN  /\ braceCount' = count2
         /\ currentResults' = res2
         /\ currentEntry' = IF complete /\ ~full THEN <<>> ELSE entry2
         /\ closed' = (closed \/ full)
         /\ IF full \/ charPos = Len(lineText)
              THEN /\ scanPc' = "lines"
                   /\ lineText' = <<>>
                   /\ charPos' = 0
              ELSE /\ charPos' = charPos + 1
                   /\ UNCHANGED <<scanPc, lineText>>
  /\ UNCHANGED <<document, scanQuery, scanBudget, linesRead, inEntries>>
  /\ UNCHANGED notScanVars

\* rl.on("close", resolve)
ScanClose ==
  /\ scanPc = "lines"
  /\ closed \/ linesRead = Len(document)
  /\ scanPc' = "resolved"
  /\ UNCHANGED <<document, scanQuery, scanBudget, linesRead, lineText, charPos, currentEntry,
                 braceCount, inEntries, currentResults, closed>>
  /\ UNCHANGED notScanVars

InitScan ==
  /\ indexDir = [exists |-> FALSE, readdirThrows |-> FALSE, files |-> <<>>]
  /\ prefs = NoDrives
  /\ SearchIdle
  /\ ScanOff
  /\ UiOff
  /\ StoreOff
  /\ LockOff
  /\ CodecOff
  /\ scored = <<>>

NextScan ==
  \/ \E doc \in Documents, k \in {1, DefaultMaxResults} : StartScan(doc, <<"a">>, k)
  \/ ScanLine
  \/ ScanChar
  \/ ScanClose

SpecScan == InitScan /\ [][NextScan]_vars

(***************************************************************************)
(* Command: the effect on searchText, its timer and the searches it        *)
(* starts.  A search started by a timer reads document A line by line.     *)
(***************************************************************************)
\* the texts typed into the search bar
Texts == {<<>>, <<" ">>, <<"a">>, <<"b">>}

\* the lines a search has to read
ScanLength == Len(FileLines(FileA))

\* clearTimeout that clears nothing
clearTimeoutNothing(ts, id) == ts

\* clearTimeout(timeoutId): a pending timer is removed, a timer that has
\* fired is not there any more
clearTimeout(ts, id) == {t \in ts : t.id # id}

\* setSearchText(text), the re-render, the cleanup of the effect in force
\* and the new run of the effect
SetSearchText(text) ==
  /\ component # "none"
  /\ issued < MaxQueries
  /\ text # searchText
  /\ searchText' = text
  /\ issued' = issued + 1
  /\ cancelled' = cancelled \cup {t.id : t \in timers}
  /\ LET cleared == IF timeoutId # 0 THEN clearTimeout(timers, timeoutId) ELSE timers
     IN  IF trim(text) = <<>>
           THEN /\ timers' = cleared
                /\ timeoutId' = 0
                /\ uiResults' = [kind |-> IF component = "search.tsx" THEN "empty" ELSE "recent",
                                 id |-> issued']
                /\ isLoading' = IF component = "search.tsx" THEN isLoading ELSE FALSE
           ELSE /\ timers' = cleared \cup {[id |-> issued', text |-> text, issuedAt |-> now,
                                            due |-> now + DebounceMs]}
                /\ timeoutId' = issued'
                /\ isLoading' = TRUE
                /\ UNCHANGED uiResults
  /\ UNCHANGED <<component, now, inflight, started>>
  /\ UNCHANGED notUiVars

\* the callback of setTimeout up to the await: searchDrivesAsync is called
\* and opens its first document
TimerFires(t) ==
  /\ t \in timers
  /\ now >= t.due
  /\ timers' = timers \ {t}
  /\ inflight' = inflight \cup {[id |-> t.id, text |-> t.text, linesLeft |-> ScanLength,
                                 staleLines |-> 0]}
  /\ started' = started \cup {[id |-> t.id, issuedAt |-> t.issuedAt, at |-> now,
                               others |-> Cardinality(inflight)]}
  /\ UNCHANGED <<component, searchText, uiResults, isLoading, now, issued, timeoutId,
                 cancelled>>
  /\ UNCHANGED notUiVars

\* a line event of the stream a search has open; staleLines counts the
\* lines read after a later query was typed
StreamLine(s) ==
  /\ s \in inflight
  /\ s.linesLeft > 0
  /\ inflight' = (inflight \ {s})
                   \cup {[s EXCEPT !.linesLeft = @ - 1,
                                   !.staleLines = IF s.id # issued THEN @ + 1 ELSE @]}
  /\ UNCHANGED <<component, searchText, uiResults, isLoading, now, issued, timeoutId,
                 timers, started, cancelled>>
  /\ UNCHANGED notUiVars

\* the await returns: setResults(searchResults), setIsLoading(false)
SearchResolves(s) ==
  /\ s \in inflight
  /\ s.linesLeft = 0
  /\ inflight' = inflight \ {s}
  /\ uiResults' = [kind |-> "search", id |-> s.id]
  /\ isLoading' = FALSE
  /\ UNCHANGED <<component, searchText, now, issued, timeoutId, timers, started, cancelled>>
  /\ UNCHANGED notUiVars

\* the await throws: setResults([]), setIsLoading(false)
SearchRejects(s) ==
  /\ s \in inflight
  /\ s.linesLeft = 0
  /\ inflight' = inflight \ {s}
  /\ uiResults' = [kind |-> "empty", id |-> s.id]
  /\ isLoading' = FALSE
  /\ UNCHANGED <<component, searchText, now, issued, timeoutId, timers, started, cancelled>>
  /\ UNCHANGED notUiVars

\* time passes
Tick(d) ==
  /\ component # "none"
  /\ now < MaxTime
  /\ now' = now + d
  /\ UNCHANGED <<component, searchText, uiResults, isLoading, issued, timeoutId, timers,
                 inflight, started, cancelled>>
  /\ UNCHANGED notUiVars

\* Command is mounted: the effect has run on the empty searchText
InitUi ==
  /\ indexDir = [exists |-> FALSE, readdirThrows |-> FALSE, files |-> <<>>]
  /\ prefs = NoDrives
  /\ SearchIdle
  /\ ScanOff
  /\ StoreOff
  /\ LockOff
  /\ CodecOff
  /\ scored = <<>>
  /\ component \in {"search.tsx", "drivebuddy.ts"}
  /\ searchText = <<>>
  /\ uiResults = [kind |-> IF component = "search.tsx" THEN "empty" ELSE "recent", id |-> 0]
  /\ isLoading = FALSE
  /\ now = 0
  /\ issued = 0
  /\ timeoutId = 0
  /\ timers = {}
  /\ inflight = {}
  /\ started = {}
  /\ cancelled = {}

NextUi ==
  \/ \E text \in Texts : SetSearchText(text)
  \/ \E t \in timers : TimerFires(t)
  \/ \E s \in inflight : StreamLine(s)
  \/ \E s \in inflight : SearchResolves(s)
  \/ \E s \in inflight : SearchRejects(s)
  \/ \E d \in {DebounceMs \div 2, DebounceMs} : Tick(d)

SpecUi == InitUi /\ [][NextUi]_vars

(***************************************************************************)
(* The recency store (getRecentFiles / recordFileAccess).  Its code is not *)
(* part of the sources: recordAccess follows section 4.5 of the            *)
(* specification.                                                          *)
(***************************************************************************)
DigitChars == <<"0", "1", "2", "3", "4", "5", "6", "7", "8", "9">>

RECURSIVE decimal(_)
decimal(i) ==
  IF i < 10 THEN <<DigitChars[i + 1]>>
  ELSE decimal(i \div 10) \o <<DigitChars[(i % 10) + 1]>>

\* the relativePath of the i-th file
PathName(i) == <<"f">> \o decimal(i)

\* the volumes files are opened on
Volumes == {<<"A">>, <<"B">>}

AccessRecord(v, p, t, n) ==
  [volumeId |-> v, relativePath |-> p, lastAccessedAt |-> t, accessCount |-> n]

pairOf(r) == [volumeId |-> r.volumeId, relativePath |-> r.relativePath]

\* the position of the record of the pair, 0 without
findRecord(recs, v, p) ==
  LET hits == {i \in 1..Len(recs) : recs[i].volumeId = v /\ recs[i].relativePath = p}
  IN  IF hits = {} THEN 0 ELSE CHOOSE i \in hits : \A j \in hits : i <= j

\* upsert without the lookup: a record is inserted at every call
insertAlways(recs, v, p, t) == Append(recs, AccessRecord(v, p, t, 1))

\* if present, refresh the timestamp and increment the count; otherwise
\* insert a new record with count 1
upsert(recs, v, p, t) ==
  LET i == findRecord(recs, v, p)
  IN  IF i > 0
        THEN [recs EXCEPT ![i] = AccessRecord(v, p, t, recs[i].accessCount + 1)]
        ELSE Append(recs, AccessRecord(v, p, t, 1))

RECURSIVE insertByRecency(_, _)
insertByRecency(sorted, x) ==
  IF sorted = <<>> THEN <<x>>
  ELSE IF Head(sorted).lastAccessedAt < x.lastAccessedAt THEN <<x>> \o sorted
  ELSE <<Head(sorted)>> \o insertByRecency(Tail(sorted), x)

\* re-sort all records by lastAccessedAt descending, a stable sort
RECURSIVE sortByRecency(_)
sortByRecency(recs) ==
  IF recs = <<>> THEN <<>>
  ELSE insertByRecency(sortByRecency(SubSeq(recs, 1, Len(recs) - 1)), recs[Len(recs)])

\* keepFirst that keeps every record
keepAll(recs, n) == recs

\* keep only the first n
keepFirst(recs, n) == SubSeq(recs, 1, Min2(n, Len(recs)))

\* recordAccess(volumeId, relativePath) at time t: the records persisted
recordAccess(recs, v, p, t) == keepFirst(sortByRecency(upsert(recs, v, p, t)), Capacity)

\* the recency document after the first n files of volume A were opened
\* once each, one per unit of time
Prefilled(n) == [i \in 1..n |-> AccessRecord(<<"A">>, PathName(n + 1 - i), n + 1 - i, 1)]

\* the handler of an action on a result: recordFileAccess(driveUUID,
\* relativePath), d units of time after the call before
RecordAccess(v, p, d) ==
  /\ accesses < MaxAccesses
  /\ accesses' = accesses + 1
  /\ storeNow' = storeNow + d
  /\ store' = recordAccess(store, v, p, storeNow')
  /\ lastSeen' = {x \in lastSeen : pairOf(x) # [volumeId |-> v, relativePath |-> p]}
                   \cup {[volumeId |-> v, relativePath |-> p, at |-> storeNow']}
  /\ lastCall' = [pair |-> [volumeId |-> v, relativePath |-> p],
                  at |-> storeNow',
                  fresh |-> IF lastCall.streak > 0
                                 /\ lastCall.pair = [volumeId |-> v, relativePath |-> p]
                              THEN lastCall.fresh
                              ELSE findRecord(store, v, p) = 0,
                  streak |-> IF lastCall.streak > 0
                                  /\ lastCall.pair = [volumeId |-> v, relativePath |-> p]
                               THEN lastCall.streak + 1
                               ELSE 1]
  /\ UNCHANGED notStoreVars

InitStore ==
  /\ indexDir = [exists |-> FALSE, readdirThrows |-> FALSE, files |-> <<>>]
  /\ prefs = NoDrives
  /\ SearchIdle
  /\ ScanOff
  /\ UiOff
  /\ LockOff
  /\ CodecOff
  /\ scored = <<>>
  /\ \E n \in 0..Capacity :
       /\ store = Prefilled(n)
       /\ storeNow = n
       /\ lastSeen = {[volumeId |-> Prefilled(n)[i].volumeId,
                       relativePath |-> Prefilled(n)[i].relativePath,
                       at |-> Prefilled(n)[i].lastAccessedAt] : i \in 1..n}
  /\ accesses = 0
  /\ lastCall = [pair |-> [volumeId |-> <<>>, relativePath |-> <<>>], at |-> 0,
                 fresh |-> FALSE, streak |-> 0]

NextStore ==
  \E v \in Volumes, i \in 1..Capacity, d \in {1, 2} : RecordAccess(v, PathName(i), d)

SpecStore == InitStore /\ [][NextStore]_vars

(***************************************************************************)
(* Calls of recordAccess in progress at the same time.  Section 5 of the   *)
(* specification: a full-document lock around the read-modify-write-       *)
(* persist sequence.                                                       *)
(***************************************************************************)
\* the callers that may be inside recordAccess at once
Callers == 1..MaxCallers

NoPair == [volumeId |-> <<>>, relativePath |-> <<>>]

NotCalling ==
  [pc |-> "idle", pair |-> NoPair, at |-> 0, snapshot |-> <<>>, contended |-> FALSE]

\* a lock that is granted to every caller that asks
acquirableAlways(holder) == TRUE

\* the lock is granted when no caller holds it
acquirable(holder) == holder = 0

\* recordAccess(volumeId, relativePath) is called
CallRecordAccess(c, v, p) ==
  /\ accesses < MaxAccesses
  /\ callers[c].pc = "idle"
  /\ accesses' = accesses + 1
  /\ callers' = [callers EXCEPT ![c] = [pc |-> "called",
                                        pair |-> [volumeId |-> v, relativePath |-> p],
                                        at |-> 0, snapshot |-> <<>>,
                                        contended |->
                                          \E d \in Callers : callers[d].pc # "idle"]]
  /\ UNCHANGED << store, storeNow, lock, serial, served >>
  /\ UNCHANGED notLockVars

\* the call takes the lock of the document
AcquireLock(c) ==
  /\ callers[c].pc = "called"
  /\ acquirable(lock)
  /\ lock' = c
  /\ callers' = [callers EXCEPT ![c].pc = "locked"]
  /\ UNCHANGED << store, storeNow, accesses, serial, served >>
  /\ UNCHANGED notLockVars

\* the read: the records of the document and the time of the access
ReadStore(c) ==
  /\ callers[c].pc = "locked"
  /\ storeNow' = storeNow + 1
  /\ callers' = [callers EXCEPT ![c].pc = "read", ![c].at = storeNow',
                                ![c].snapshot = store]
  /\ UNCHANGED << store, accesses, lock, serial, served >>
  /\ UNCHANGED notLockVars

\* the modification and the full rewrite of the document
PersistStore(c) ==
  /\ callers[c].pc = "read"
  /\ store' = recordAccess(callers[c].snapshot, callers[c].pair.volumeId,
                           callers[c].pair.relativePath, callers[c].at)
  /\ serial' = recordAccess(serial, callers[c].pair.volumeId,
                            callers[c].pair.relativePath, callers[c].at)
  /\ callers' = [callers EXCEPT ![c].pc = "written"]
  /\ UNCHANGED << storeNow, accesses, lock, served >>
  /\ UNCHANGED notLockVars

\* the lock is given back and the call returns
ReleaseLock(c) ==
  /\ callers[c].pc = "written"
  /\ lock' = IF lock = c THEN 0 ELSE lock
  /\ served' = Append(served, [pair |-> callers[c].pair,
                                contended |-> callers[c].contended])
  /\ callers' = [callers EXCEPT ![c] = NotCalling]
  /\ UNCHANGED << store, storeNow, accesses, serial >>
  /\ UNCHANGED notLockVars

InitLock ==
  /\ indexDir = [exists |-> FALSE, readdirThrows |-> FALSE, files |-> <<>>]
  /\ prefs = NoDrives
  /\ SearchIdle
  /\ ScanOff
  /\ UiOff
  /\ \E n \in {0, Capacity} :
       /\ store = Prefilled(n)
       /\ serial = Prefilled(n)
       /\ storeNow = n
       /\ served = [i \in 1..n |-> [pair |-> pairOf(Prefilled(n)[n + 1 - i]),
                                     contended |-> FALSE]]
  /\ accesses = 0
  /\ lastSeen = {}
  /\ lastCall = [pair |-> NoPair, at |-> 0, fresh |-> FALSE, streak |-> 0]
  /\ lock = 0
  /\ callers = [c \in Callers |-> NotCalling]
  /\ CodecOff
  /\ scored = <<>>

NextLock ==
  \/ \E c \in Callers, i \in 1..(Capacity + 1) : CallRecordAccess(c, <<"A">>, PathName(i))
  \/ \E c \in Callers : AcquireLock(c)
  \/ \E c \in Callers : ReadStore(c)
  \/ \E c \in Callers : PersistStore(c)
  \/ \E c \in Callers : ReleaseLock(c)

SpecLock == InitLock /\ [][NextLock]_vars

(***************************************************************************)
(* The naming of the index documents: encodeVolumeUUID gives the name of   *)
(* the document of a volume, decodeVolumeUUID the volume of a document     *)
(* found in the index directory.                                           *)
(***************************************************************************)
\* the strings over the alphabet of at most n characters
RECURSIVE StringsUpTo(_, _)
StringsUpTo(alphabet, n) ==
  IF n = 0 THEN {<<>>}
  ELSE LET shorter == StringsUpTo(alphabet, n - 1)
       IN  shorter \cup {Append(x, ch) : x \in shorter, ch \in alphabet}

AsciiAlphabet == {AsciiTable[i] : i \in 1..Len(AsciiTable)}

\* characters of the codes 0, 42, 45, 54, 85 and 127
SampleAlphabet == {"x00", "*", "-", "6", "U", "x7F"}

\* the volume identifiers encoded: every ASCII string of at most two
\* characters, and the longer strings over the sample
VolumeIds == StringsUpTo(AsciiAlphabet, 2) \cup StringsUpTo(SampleAlphabet, MaxIdLen)

\* file names of the index directory that are not the encoding of an
\* identifier
ForeignNames ==
  { <<"x">> \o DotJson,
    <<"b", "a", "c", "k", "u", "p">> \o DotJson,
    <<"m", "y", " ", "d", "r", "i", "v", "e">> \o DotJson,
    <<"Q", "Q">> \o DotJson,
    <<"Q", "Q", "=", "=">>,
    FileN }

\* the file names the index directory lists
ListedNames == ForeignNames \cup {FileA, FileB, FileC, FileD, DotJson}

EncodeName ==
  /\ codecPc = "id"
  /\ indexFileName' = encodeVolumeUUID(volumeUUID) \o DotJson
  /\ codecPc' = "encoded"
  /\ UNCHANGED << volumeUUID, decodedUUID >>
  /\ UNCHANGED notCodecVars

DecodeName ==
  /\ codecPc \in {"encoded", "listed"}
  /\ decodedUUID' = decodeVolumeUUID(indexFileName)
  /\ codecPc' = IF codecPc = "encoded" THEN "returned" ELSE "decoded"
  /\ UNCHANGED << volumeUUID, indexFileName >>
  /\ UNCHANGED notCodecVars

InitCodec ==
  /\ indexDir = [exists |-> FALSE, readdirThrows |-> FALSE, files |-> <<>>]
  /\ prefs = NoDrives
  /\ SearchIdle
  /\ ScanOff
  /\ UiOff
  /\ StoreOff
  /\ LockOff
  /\ scored = <<>>
  /\ decodedUUID = <<>>
  /\ \/ /\ codecPc = "id"
        /\ volumeUUID \in VolumeIds
        /\ indexFileName = <<>>
     \/ /\ codecPc = "listed"
        /\ volumeUUID = <<>>
        /\ indexFileName \in ListedNames

NextCodec ==
  \/ EncodeName
  \/ DecodeName

SpecCodec == InitCodec /\ [][NextCodec]_vars

(***************************************************************************)
(* The score function on its own: score is called for a query and the name *)
(* of a candidate.                                                         *)
(***************************************************************************)
S_TeSt == <<"T", "e", "S", "t">>

\* the queries scored
ScoreQueries == {<<>>, <<"t">>, <<"e", "s">>, S_test, S_TeSt, S_testing}

\* the names scored
ScoreNames ==
  {<<>>, S_test, <<"T", "E", "S", "T">>, S_test_txt, S_testing, S_latest, S_trash, S_tesst}

ScoreName(query, name) ==
  /\ scored' = (IF scored = <<>> THEN <<>> ELSE <<scored[Len(scored)]>>)
                 \o <<[query |-> query, name |-> name, matchScore |-> Score(query, name)]>>
  /\ UNCHANGED notScoreVars

InitScore ==
  /\ indexDir = [exists |-> FALSE, readdirThrows |-> FALSE, files |-> <<>>]
  /\ prefs = NoDrives
  /\ SearchIdle
  /\ ScanOff
  /\ UiOff
  /\ StoreOff
  /\ LockOff
  /\ CodecOff
  /\ scored = <<>>

NextScore == \E query \in ScoreQueries, name \in ScoreNames : ScoreName(query, name)

SpecScore == InitScore /\ [][NextScore]_vars

(***************************************************************************)
(* Properties.                                                             *)
(***************************************************************************)
asyncDone == call = "async" /\ pc = "done"

\* the units of a document that lie in its entries region
RECURSIVE regionUnits(_, _)
regionUnits(lines, inE) ==
  IF lines = <<>> THEN <<>>
  ELSE (IF inE \/ Head(lines).label THEN Head(lines).units ELSE <<>>)
         \o regionUnits(Tail(lines), inE \/ Head(lines).label)

\* the result list holds the entry u of file f
holdsEntry(list, u, f) ==
  \E i \in 1..Len(list) :
    /\ list[i].indexFile = f
    /\ list[i].entry = [name |-> u.name, relativePath |-> u.relativePath]

\* the names of a result list
namesOf(list) == [i \in 1..Len(list) |-> list[i].entry.name.v]

\* C1: budget law -- the list returned by searchDrivesAsync or searchDrives
\* called with maxResults = k >= 0 has at most k elements (at most the
\* default of 100 when the argument is left out).
BudgetLaw ==
  pc = "done" =>
    Len(output) <= (IF maxArg = {} THEN DefaultMaxResults ELSE CHOOSE k \in maxArg : TRUE)

\* a search whose budget of 2 was filled before every document was opened
BudgetLawWitness ==
  /\ asyncDone
  /\ maxArg = {2}
  /\ Len(output) = 2
  /\ Len(opened) < Len(fileStats)

\* C2: threshold law -- every result searchDrivesAsync returns has a name
\* whose score against the query is strictly above 60 and within [0, 100].
ThresholdLaw ==
  asyncDone =>
    \A i \in 1..Len(output) :
      /\ output[i].entry.name.t = "string"
      /\ LET sc == Score(lowerQuery, output[i].entry.name.v)
         IN  /\ AboveThreshold(sc)
             /\ 0 <= sc.num
             /\ sc.num <= 100 * sc.den

\* document A (test.txt, testing, latest, trash) read to its end: trash,
\* which scores 40, was offered to the scanner and three results came back
ThresholdLawWitness ==
  /\ asyncDone
  /\ maxArg = {}
  /\ lowerQuery = S_test
  /\ opened = <<FileA>>
  /\ failed = {}
  /\ Len(output) = 3

\* C3: match predicate -- while the budget is not exhausted, every decoded
\* entry with a name and a relativePath whose score is strictly above 60
\* becomes a result, also when the name does not contain the query.
MatchPredicateIsScore ==
  (asyncDone /\ ~budgetReached(Len(results), maxResults)) =>
    \A i \in 1..Len(opened) :
      opened[i] \notin failed =>
        LET us == regionUnits(FileLines(opened[i]), FALSE)
        IN  \A j \in 1..Len(us) :
              ( /\ us[j].parses
                /\ us[j].name.t = "string"
                /\ truthy(us[j].name)
                /\ truthy(us[j].relativePath)
                /\ AboveThreshold(Score(lowerQuery, us[j].name.v)) )
              => holdsEntry(output, us[j], opened[i])

\* a comes after b in the claimed order: score descending, then drive name
\* ascending, then relativePath ascending
comesAfterByScore(a, b, query) ==
  LET sa == Score(query, toStringValue(a.entry.name))
      sb == Score(query, toStringValue(b.entry.name))
      dn == localeCompare(a.driveName, b.driveName)
      rp == localeCompare(toStringValue(a.entry.relativePath),
                          toStringValue(b.entry.relativePath))
  IN  \/ ScoreGreater(sb, sa)
      \/ ~ScoreGreater(sa, sb) /\ dn > 0
      \/ ~ScoreGreater(sa, sb) /\ dn = 0 /\ rp > 0

\* C4: result order -- the returned list is sorted by match score
\* descending, then drive name ascending, then relativePath ascending: no
\* result comes after its successor in that order (stated for the searches
\* in which no stream failed).
ResultOrderByScore ==
  (asyncDone /\ failed = {}) =>
    \A i \in 1..(Len(output) - 1) :
      ~comesAfterByScore(output[i], output[i + 1], lowerQuery)

\* every order of the results of a list
Orders(list) ==
  {[i \in 1..Len(list) |-> list[f[i]]] : f \in Permutations(1..Len(list))}

\* what the comparator looks at in a result
sortKey(r, query) ==
  [nameMatch |-> includes(toStringValue(r.entry.name), query),
   driveName |-> r.driveName,
   relativePath |-> toStringValue(r.entry.relativePath)]

keysOf(list, query) == [i \in 1..Len(list) |-> sortKey(list[i], query)]

\* the results of a list that carry the key k, in their order; keys holds
\* the key of every result of the list
RECURSIVE withKey(_, _, _)
withKey(list, keys, k) ==
  IF list = <<>> THEN <<>>
  ELSE (IF Head(keys) = k THEN <<Head(list)>> ELSE <<>>)
         \o withKey(Tail(list), Tail(keys), k)

\* C5 as stated: whatever the order in which the same results were pooled,
\* the sort returns the identical list (stated for the searches in which no
\* stream failed).
RankOrderIndependent ==
  (asyncDone /\ failed = {}) => \A p \in Orders(results) : sortResults(p, lowerQuery) = results

\* C5 as amended: whatever the order in which the same results were pooled,
\* the sorted lists agree position by position on the sort key (name match,
\* drive name, relativePath), and results that tie on the whole key keep the
\* order in which they were pooled.
RankKeysOrderIndependent ==
  asyncDone =>
    \A p \in Orders(results) :
      LET sorted == sortResults(p, lowerQuery)
          ks == keysOf(sorted, lowerQuery)
          kp == keysOf(p, lowerQuery)
      IN  /\ ks = keysOf(results, lowerQuery)
          /\ \A k \in {kp[i] : i \in 1..Len(kp)} :
               withKey(sorted, ks, k) = withKey(p, kp, k)

\* two documents gave results that tie on the whole sort key, next to
\* results with other keys
RankKeysWitness ==
  /\ asyncDone
  /\ \E i, j \in 1..Len(output) :
       /\ output[i].indexFile # output[j].indexFile
       /\ sortKey(output[i], lowerQuery) = sortKey(output[j], lowerQuery)
  /\ \E i, j \in 1..Len(output) :
       sortKey(output[i], lowerQuery) # sortKey(output[j], lowerQuery)

\* C6: README scenario -- "test" with a budget of at least 3 over the one
\* document test.txt, testing, latest, trash returns latest, testing,
\* test.txt in this order (descending score), without trash.
ReadmeScenario ==
  ( /\ asyncDone
    /\ lowerQuery = S_test
    /\ maxResults >= 3
    /\ opened = <<FileA>>
    /\ failed = {} )
  => namesOf(output) = <<S_latest, S_testing, S_test_txt>>

\* C7: failure isolation -- when the stream of a document fails, every
\* document after it in the scan order is still opened unless the budget is
\* reached, and the matching entries of those read to their end are
\* returned.
FailureIsolation ==
  (call = "async" /\ pc \in {"done", "rejected"}) =>
    \A i, j \in 1..Len(fileStats) :
      (i < j /\ fileStats[i].file \in failed) =>
        /\ \/ j <= Len(opened) /\ opened[j] = fileStats[j].file
           \/ Len(results) >= maxResults
        /\ ( /\ pc = "done"
             /\ Len(results) < maxResults
             /\ fileStats[j].file \notin failed )
           => LET us == regionUnits(FileLines(fileStats[j].file), FALSE)
              IN  \A n \in 1..Len(us) :
                    ( /\ us[n].parses
                      /\ truthy(us[n].name)
                      /\ truthy(us[n].relativePath)
                      /\ us[n].name.t = "string"
                      /\ includes(us[n].name.v, lowerQuery) )
                    => holdsEntry(output, us[n], fileStats[j].file)

\* a document failed and a later document gave a result
FailureIsolationWitness ==
  /\ asyncDone
  /\ \E i, j \in 1..Len(fileStats) :
       /\ i < j
       /\ fileStats[i].file \in failed
       /\ fileStats[j].file \notin failed
       /\ \E n \in 1..Len(output) : output[n].indexFile = fileStats[j].file

\* C8: a failed document contributes nothing -- no result of the returned
\* list comes from a document whose stream failed.
FailedContributesNothing ==
  asyncDone => \A i \in 1..Len(output) : output[i].indexFile \notin failed

\* C9: searchDrivesAsync never rejects, and returns the empty list when the
\* enumeration of the directory fails.
NeverRejects ==
  call = "async" =>
    /\ pc # "rejected"
    /\ (pc = "done" /\ indexDir.readdirThrows) => output = <<>>

\* the directory is absent or holds no file ending in ".json"
noIndexDocuments ==
  \/ ~indexDir.exists
  \/ /\ ~indexDir.readdirThrows
     /\ \A i \in 1..Len(indexDir.files) : ~endsWith(indexDir.files[i], DotJson)

\* C10: absent or empty directory -- for a non-empty query the search
\* returns the empty list, without an error and without opening a document.
EmptyDirectoryLaw ==
  (call # "none" /\ lowerQuery # <<>> /\ noIndexDocuments) =>
    /\ pc = "done"
    /\ output = <<>>
    /\ opened = <<>>

\* the directory holds notes.txt alone, and a search for "test" returned
EmptyDirectoryWitness ==
  /\ asyncDone
  /\ lowerQuery = S_test
  /\ indexDir.files = <<FileN>>

\* C11: empty query -- when the query is empty or holds white space only,
\* searchDrivesAsync and searchDrives return the empty list without calling
\* readdirSync on the index directory and without opening a document.
EmptyQueryLaw ==
  (call # "none" /\ \A i \in 1..Len(queryArg) : IsSpace(queryArg[i])) =>
    /\ pc = "done"
    /\ output = <<>>
    /\ ~enumerated
    /\ opened = <<>>

\* a search for " " returned while the directory holds document A
EmptyQueryWitness ==
  /\ asyncDone
  /\ queryArg = <<" ">>
  /\ indexDir.exists
  /\ \E i \in 1..Len(indexDir.files) : indexDir.files[i] = FileA

\* C12: scan order -- the documents of one search are opened in ascending
\* order of file size, a document whose size cannot be read counting as
\* size 0: no document is opened before a strictly smaller one.
ScanOrder ==
  \A i, j \in 1..Len(opened) :
    i < j => statOf(opened[i]).size <= statOf(opened[j]).size

\* the directory lists the larger document A before the smaller document C
\* (or D, whose size cannot be read), and both were opened by the streaming
\* search, the smaller one first
ScanOrderWitness ==
  /\ call = "async"
  /\ Len(opened) = 2
  /\ indexDir.files[1] = FileA
  /\ opened[2] = FileA
  /\ statOf(opened[1]).size < statOf(FileA).size

\* C13: early termination -- the pooled results never exceed maxResults;
\* while a document is scanned with the budget reached its stream is closed;
\* and from then on no further result is pooled and no further document is
\* opened.
EarlyTermination ==
  /\ [](call = "async" => Len(results) <= maxResults)
  /\ []((pc = "scan" /\ budgetReached(Len(results), maxResults)) => stream.rlClosed)
  /\ [][(pc = "scan" /\ budgetReached(Len(results), maxResults))
          => (Len(results') = Len(results) /\ opened' = opened)]_vars

\* the budget was reached inside a document that has lines left, with a
\* later document waiting in the scan order
EarlyTerminationWitness ==
  /\ pc = "scan"
  /\ maxResults > 0
  /\ Len(results) = maxResults
  /\ stream.rlClosed
  /\ stream.lineNo < Len(FileLines(stream.file))
  /\ idx < Len(fileStats)

\* the unit is no SearchEntry: it does not decode, or its name or its
\* relativePath is missing, empty or no string
malformed(u) ==
  \/ ~u.parses
  \/ u.name.t # "string"
  \/ u.relativePath.t # "string"
  \/ ~truthy(u.name)
  \/ ~truthy(u.relativePath)

\* C14: malformed entry tolerance -- a unit of the entries region that fails
\* to decode, or decodes to something without a usable name or relativePath,
\* is skipped: it is not among the results; and every well-formed entry
\* after it in the same document whose name contains the query is returned,
\* unless the budget is reached (stated for the searches in which no
\* stream failed).
MalformedTolerance ==
  (asyncDone /\ failed = {} /\ ~budgetReached(Len(results), maxResults)) =>
    \A i \in 1..Len(opened) :
      LET us == regionUnits(FileLines(opened[i]), FALSE)
      IN  \A m \in 1..Len(us) :
            malformed(us[m]) =>
              /\ ~holdsEntry(output, us[m], opened[i])
              /\ \A n \in (m + 1)..Len(us) :
                   (~malformed(us[n]) /\ includes(us[n].name.v, lowerQuery))
                     => holdsEntry(output, us[n], opened[i])

\* C16: sequential scanning -- at most one document stream is open at any
\* time, and it is the stream of the document being scanned: a document is
\* opened only after the stream of the previous one has ended, was closed or
\* failed, and only while the budget is not reached.
SequentialScanning ==
  /\ Cardinality(openStreams) <= 1
  /\ pc = "scan" => openStreams \subseteq {stream.file}
  /\ pc # "scan" => openStreams = {}
  /\ (pc = "scan" /\ stream.lineNo = 0) => Len(results) < maxResults

\* the second document of a search is being read after the first one was
\* read to its end
SequentialScanningWitness ==
  /\ pc = "scan"
  /\ Len(opened) = 2
  /\ failed = {}
  /\ openStreams = {opened[2]}
  /\ stream.lineNo > 0

\* what a full parse of the document selects: the entries of
\* JSON.parse(content).entries that pass the test of the scanner, in order
fullParseSelect(text, q) ==
  LET r == JSONparse(text)
      es == prop(r.val, K_entries)
      asUnit(x) == Entry(prop(x, K_name), prop(x, K_relativePath))
      chosen == SelectSeq(es.v, LAMBDA x : isCandidate(asUnit(x), q))
  IN  IF r.ok /\ es.t = "array"
        THEN [i \in 1..Len(chosen) |->
                [name |-> prop(chosen[i], K_name),
                 relativePath |-> prop(chosen[i], K_relativePath)]]
        ELSE <<>>

\* C15: streaming completeness -- for a well-formed document, wherever its
\* line feeds lie and whatever characters its names hold, the scanner has
\* pushed, when it resolves, the entries a full parse of the document
\* selects, up to its budget.
StreamingComplete ==
  (scanPc = "resolved" /\ JSONparse(fileText(document)).ok) =>
    currentResults = slice(fullParseSelect(fileText(document), scanQuery), scanBudget)

\* C17: supersede, not queue -- at most one timer is pending and it is the
\* timer of the last query typed; a query whose timer was pending when the
\* next query was typed never starts a search; a search starts no sooner
\* than 200 ms after its query was typed; and a timer that is due can fire
\* whatever searches are in flight.
SupersedeNotQueue ==
  /\ Cardinality(timers) <= 1
  /\ \A s \in started : s.id \notin cancelled /\ s.at >= s.issuedAt + DebounceMs
  /\ \A t \in timers : t.id = issued /\ (now >= t.due => ENABLED TimerFires(t))

\* a query was cancelled while pending, and a search was started while the
\* search of an earlier query was in flight
SupersedeWitness ==
  /\ cancelled # {}
  /\ \E s \in started : s.others > 0 /\ s.id > 1 + Cardinality(cancelled)

\* C18: cancellation closes the stream -- once a later query is typed, the
\* search in flight reads at most the line being delivered: no second line
\* of its document is read on behalf of the superseded query.
CancellationClosesStream ==
  \A s \in inflight : s.staleLines <= 1

\* the store holds a record of the pair
kept(recs, x) == findRecord(recs, x.volumeId, x.relativePath) > 0

RECURSIVE callsFor(_, _)
callsFor(log, pair) ==
  IF log = <<>> THEN 0
  ELSE (IF Head(log).pair = pair THEN 1 ELSE 0) + callsFor(Tail(log), pair)

pairsOf(log) == {log[i].pair : i \in 1..Len(log)}

noCallInProgress == \A c \in Callers : callers[c].pc = "idle"

rivals(u) ==
  {[u EXCEPT ![i] = ch] : i \in 1..Len(u), ch \in SampleAlphabet}
    \cup {Append(u, ch) : ch \in SampleAlphabet}
    \cup {SubSeq(u, 1, Len(u) - 1)}
    \cup StringsUpTo(SampleAlphabet, 2)

\* C22: volume identifier round trip.  Decoding the file name made of the
\* encoding of an ASCII identifier and ".json" gives the identifier back, and
\* no other identifier has the same encoding.
VolumeIdRoundTrip ==
  /\ codecPc = "returned" => decodedUUID = volumeUUID
  /\ codecPc = "encoded" =>
       \A w \in rivals(volumeUUID) \ {volumeUUID} :
         encodeVolumeUUID(w) \o DotJson # indexFileName

\* an identifier of more than one group of three bytes, with a padded last
\* group, went through both functions
VolumeIdRoundTripWitness ==
  /\ codecPc = "returned"
  /\ Len(volumeUUID) = 4
  /\ volumeUUID[1] = "x7F"
  /\ volumeUUID[4] = "x00"

\* the file name is the encoding of an identifier, followed by ".json"
validName(f) == encodeVolumeUUID(decodeVolumeUUID(f)) \o DotJson = f

\* C23: malformed filename fallback.  For a file name that is not the
\* encoding of an identifier decodeVolumeUUID returns the file name without
\* its extension.
MalformedNameFallback ==
  (codecPc = "decoded" /\ ~validName(indexFileName)) =>
    decodedUUID = replaceFirst(indexFileName, DotJson)

\* the name contains the query, case ignored, and the query is not empty
substringHit(x) == x.query # <<>> /\ includes(toLowerCase(x.name), toLowerCase(x.query))

\* C24: substring score.  For a non-empty query contained in the name, case
\* ignored, the score is 90 + 10 * len(q) / len(n); it lies in [90, 100], is
\* 100 when query and name are equal ignoring case, and of two such scores
\* the one with the larger len(q) / len(n) is the larger.
SubstringScore ==
  /\ \A i \in 1..Len(scored) :
       substringHit(scored[i]) =>
         LET x == scored[i]
             sc == x.matchScore
         IN  /\ sc.den > 0
             /\ sc.num * Len(x.name) = sc.den * (90 * Len(x.name) + 10 * Len(x.query))
             /\ 90 * sc.den <= sc.num
             /\ sc.num <= 100 * sc.den
             /\ toLowerCase(x.query) = toLowerCase(x.name) => sc.num = 100 * sc.den
  /\ \A i, j \in 1..Len(scored) :
       (/\ substringHit(scored[i])
        /\ substringHit(scored[j])
        /\ Len(scored[i].query) * Len(scored[j].name)
             < Len(scored[j].query) * Len(scored[i].name))
         => ScoreGreater(scored[j].matchScore, scored[i].matchScore)

\* the query of the README in other case was scored against test.txt (95)
\* and then against testing (95.7)
SubstringScoreWitness ==
  /\ Len(scored) = 2
  /\ scored[1].query = S_TeSt
  /\ scored[1].name = S_test_txt
  /\ scored[1].matchScore.num = 95 * scored[1].matchScore.den
  /\ scored[2].query = S_TeSt
  /\ scored[2].name = S_testing
  /\ ScoreGreater(scored[2].matchScore, scored[1].matchScore)

\* the first characters of the text of an entry
EntryOpening == <<"{">> \o Quoted(K_name)

\* the places of the buffer where the text of an entry begins
entryStarts(buffer) == {i \in 1..Len(buffer) : MatchAt(buffer, EntryOpening, i)}

\* C25: bounded accumulation.  While the scan runs, nothing is accumulated
\* before the entries label was seen, the buffer is empty whenever the depth
\* is zero, and the buffer never holds the text of more than one entry.
BoundedAccumulation ==
  /\ ~inEntries => currentEntry = <<>>
  /\ (braceCount = 0 /\ ~closed) => currentEntry = <<>>
  /\ Cardinality(entryStarts(currentEntry)) <= 1

\* the result matches through the name of its entry
nameMatch(r, query) == r.entry.name.t = "string" /\ includes(r.entry.name.v, query)

\* the result matches through the relativePath of its entry, lower-cased
pathMatch(r, query) ==
  r.entry.relativePath.t = "string" /\ includes(toLowerCase(r.entry.relativePath.v), query)

\* C26: synchronous fallback.  Every entry searchDrives returns has a name
\* or a lower-cased relativePath that contains the lower-cased trimmed query,
\* and the entries whose name contains it come before those matched through
\* the path only.
SyncNameBeforePath ==
  (call = "sync" /\ pc = "done") =>
    /\ \A i \in 1..Len(output) :
         nameMatch(output[i], lowerQuery) \/ pathMatch(output[i], lowerQuery)
    /\ \A i, j \in 1..Len(output) :
         (nameMatch(output[i], lowerQuery) /\ ~nameMatch(output[j], lowerQuery)) => i < j

\* document E was read first, so that an entry matched through its path was
\* pooled before the entries matched through their name, and both kinds are
\* returned
SyncNameBeforePathWitness ==
  /\ call = "sync"
  /\ pc = "done"
  /\ Len(opened) >= 2
  /\ opened[1] = FileE
  /\ \E i, j \in 1..Len(output) :
       /\ nameMatch(output[i], lowerQuery)
       /\ ~nameMatch(output[j], lowerQuery)
       /\ output[i].indexFile # FileE

\* no timer is pending and no search is in flight
quiet == timers = {} /\ inflight = {}

\* C27: no stale results.  Once no search is pending or in flight, the list
\* displayed is the one of the last search text: the empty or recent list
\* when the text is empty, the outcome of the search of that text otherwise.
NoStaleResults ==
  quiet =>
    IF trim(searchText) = <<>>
      THEN uiResults.kind \in {"empty", "recent"} /\ uiResults.id \in {0, issued}
      ELSE uiResults.id = issued

\* a timer is pending or a search is in flight for the current search text
searchUnderWay == (\E t \in timers : t.id = issued) \/ (\E s \in inflight : s.id = issued)

\* C28: loading flag.  isLoading is true while a search is pending or in
\* flight for the current search text, and false when no search is pending
\* or in flight.
LoadingFlag ==
  /\ searchUnderWay => isLoading
  /\ quiet => ~isLoading

\* the character the loop is about to read is the "{" that opens an entry
entryOpens ==
  /\ scanPc = "chars"
  /\ lineText[charPos] = "{"
  /\ charPos = 1 \/ lineText[charPos - 1] = ","

\* C29: depth counter.  While a well-formed document is scanned braceCount
\* is never negative, and it is zero where an entry begins.
DepthCounter ==
  /\ braceCount >= 0
  /\ entryOpens => braceCount = 0

\* the line and close events of the documents from position i on
RECURSIVE eventsLeft(_)
eventsLeft(i) ==
  IF i > Len(fileStats) THEN 0
  ELSE Len(FileLines(fileStats[i].file)) + 1 + eventsLeft(i + 1)

\* the events the search can still get before it ends: the lines of the
\* open document that were not delivered and its close or error, and those
\* of the documents behind it
remaining ==
  IF pc = "scan"
    THEN (Len(FileLines(stream.file)) - stream.lineNo) + 1 + eventsLeft(idx + 1)
    ELSE 0

\* an event of the open document is due: a line that was not delivered, the
\* close of readline, or the error of a file that cannot be opened
eventDue ==
  \/ ENABLED OnLine
  \/ resolved(stream)
  \/ OpenFails(stream.file) /\ ~stream.rlClosed

\* C30: termination.  While the search scans, an event of the open document
\* is due, and every step lowers the number of events the search can still
\* get, which is never negative: the scan of every document ends and
\* searchDrivesAsync returns (or rejects in its sort).  The scan of a document
\* ends once: no document is opened twice, and when the open document
\* changes the loop has moved on to one that has no stream open.
Termination ==
  /\ [](NoRepeat(opened) /\ remaining >= 0)
  /\ [](pc = "scan" => eventDue)
  /\ [][pc = "scan" => remaining' < remaining]_vars
  /\ [][(pc = "scan" /\ stream'.file # stream.file) =>
          (idx' > idx /\ (pc' = "scan" => stream'.file \notin openStreams))]_vars

\* the search returned after two scans: one rejected on a stream error, one
\* resolved after its handler closed the stream on the budget
TerminationWitness ==
  /\ call = "async"
  /\ pc = "done"
  /\ Len(opened) = 2
  /\ Cardinality(failed) = 1
  /\ Len(results) >= maxResults
  /\ maxResults > 0

====
